---------------------------- MODULE Spec2Model ----------------------------
(***************************************************************************)
(* State-machine model of the single-operator XMR bridge                   *)
(* (src/bridge.py, src/monero_monitor.py, src/monero_wallet.py,            *)
(* src/database.py, src/secret_client.py).                                 *)
(*                                                                         *)
(* The specifications share the variables; the first four:                 *)
(*   Spec        the deposit pipeline as the program wires it: the Monero  *)
(*               chain, MoneroDepositMonitor's poll cycle and, through the *)
(*               on_deposit callback, SimpleBridge._on_deposit;            *)
(*   SpecBridge  the bridge's handlers driven by their callers: concurrent *)
(*               generate_subaddress calls, _on_deposit and                *)
(*               _handle_withdrawal invoked with an event;                 *)
(*   SpecFlows   _on_deposit and _handle_withdrawal alone, identities       *)
(*               already mapped;                                           *)
(*   SpecLedger  BridgeDatabase's mark_*_processed called concurrently.    *)
(* SpecRestart, SpecFair, SpecFrost, SpecP2P, SpecBlocks, SpecWithdraw and *)
(* SpecShutdown are introduced where they are defined.                     *)
(***************************************************************************)
EXTENDS Integers, Sequences, FiniteSets, TLC

VARIABLES
    \* ---- Monero chain (external collaborator) ----
    chain_height,           \* what get_block_count reports
    transfers,              \* incoming transfers the wallet RPC knows
    \* ---- MoneroDepositMonitor (src/monero_monitor.py) ----
    running,                \* self.running
    last_checked_height,    \* self.last_checked_height
    processed_txs,          \* self.processed_txs
    mon_pc,                 \* position of _monitor_loop / _check_deposits
    current_height,         \* local of _check_deposits
    lastPoll,               \* record of the most recent poll cycle (history)
    delivered,              \* deposits handed to on_deposit, in order (history)
    \* ---- BridgeDatabase (src/database.py) ----
    subaddress_mappings,
    processed_deposits,
    processed_withdrawals,
    \* ---- SecretNetworkClient.mint / MoneroWalletManager.send_transaction ----
    mints,                  \* every mint call issued, in order
    sends,                  \* every send_transaction call issued, in order
    \* ---- generate_subaddress calls in flight ----
    gen,                    \* per caller: pc, user_identifier, index
    issued,                 \* what generate_subaddress has returned (history)
    \* ---- mark_*_processed calls in flight (SpecLedger) ----
    calls,
    \* ---- the most recent _on_deposit / _handle_withdrawal call (history) ----
    lastCall,
    \* ---- FrostCoordinator / FrostParticipant (src/frost) ----
    threshold,              \* coordinator.threshold
    total_participants,     \* coordinator.total_participants
    coordinator_public_key, \* coordinator._public_key
    secret_share,           \* per participant: _secret_share
    public_key,             \* per participant: _public_key
    frost_last,             \* the most recent FROST call and how it ended (history)
    \* ---- P2PNetwork (src/network/p2p.py), one object per node ----
    connections,            \* per node: self._connections, a list of writers
    links,                  \* per connection id: its two ends
    pending,                \* _handle_connection tasks created, not yet run
    readers,                \* _handle_connection tasks in their read loop
    wire,                   \* per connection and direction: lines in flight
    handled,                \* per node: messages given to _message_handler
    broadcasts,             \* per node: broadcast() calls made (history)
    dialed,                 \* peer addresses _connect_to_peers has tried
    intruder_sent,          \* lines an unconfigured sender has written
    \* ---- MoneroDepositMonitor of src/monero/deposit_monitor.py ----
    block_running,          \* self._running
    block_pc,               \* position of the _monitor_loop task
    last_height,            \* local last_height of _monitor_loop
    block_current_height,   \* local current_height of _monitor_loop
    block_todo,             \* heights the for loop has still to visit
    block_initial,          \* the watermark line 62 set (history)
    block_poll,             \* heights the polls of the loop returned (history)
    block_log,              \* calls of _process_block, in order (history)
    \* ---- Secret Network chain (external collaborator) ----
    secret_height,          \* height of the chain's latest block
    burns,                  \* burn events on chain
    \* ---- SimpleBridge (src/bridge.py) ----
    bridge_running,         \* self.running
    last_withdrawal_check_height,
    wd_pc,                  \* position of monitor_withdrawals
    wd_initial,             \* the watermark start() set (history)
    wd_handed,              \* burn tx hashes given to _handle_withdrawal (history)
    sessions_open,          \* the aiohttp sessions of both clients are open
    db_open,                \* BridgeDatabase.conn is open
    stopped,                \* SimpleBridge.stop() has returned
    flow,                   \* per flow: an _on_deposit / _handle_withdrawal call in flight
    \* ---- FrostCoordinator.__init__ ----
    frost_init,             \* the most recent constructor call (history)
    \* ---- one P2PNetwork object through its life (src/network/p2p.py) ----
    p2p_running,            \* self._running
    p2p_server,             \* self._server is listening
    p2p_connections,        \* self._connections, a list of writers
    writers,                \* per StreamWriter: its peer, its transport, its handler task
    reachable,              \* remotes whose listen address accepts connections
    connect_pos,            \* position of the _connect_to_peers task in peer_addresses
    failed_dials,           \* peers whose open_connection raised (history)
    bcast,                  \* the broadcast() call in flight
    bcast_log,              \* the last broadcast() call that returned (history)
    stop_pc,                \* position of the stop() call
    \* ---- SimpleBridge.monitor_withdrawals ----
    wd_poll,                \* what the last height query of a cycle returned (history)
    \* ---- MoneroDepositMonitor (src/monero_monitor.py): start() and stop() ----
    loop_tasks,             \* _monitor_loop tasks created and not yet returned
    start_calls,            \* start() calls made (history)
    loop_polls              \* _check_deposits calls the loop tasks made (history)

vars == <<chain_height, transfers, running, last_checked_height, processed_txs,
          mon_pc, current_height, lastPoll, delivered, subaddress_mappings,
          processed_deposits, processed_withdrawals, mints, sends, gen, issued,
          calls, lastCall, threshold, total_participants,
          coordinator_public_key, secret_share, public_key, frost_last,
          connections, links, pending, readers, wire, handled, broadcasts,
          dialed, intruder_sent, block_running, block_pc, last_height,
          block_current_height, block_todo, block_initial, block_poll,
          block_log, secret_height, burns, bridge_running,
          last_withdrawal_check_height, wd_pc, wd_initial, wd_handed,
          sessions_open, db_open, stopped, flow, frost_init,
          p2p_running, p2p_server, p2p_connections, writers, reachable,
          connect_pos, failed_dials, bcast, bcast_log, stop_pc, wd_poll,
          loop_tasks, start_calls, loop_polls>>

chainVars   == <<chain_height, transfers>>
monitorVars == <<running, last_checked_height, processed_txs, mon_pc,
                 current_height, lastPoll, delivered>>
ledgerVars  == <<processed_deposits, processed_withdrawals>>
allocVars   == <<gen, issued>>
signerVars  == <<threshold, total_participants, coordinator_public_key,
                 secret_share, public_key, frost_last>>
netVars     == <<connections, links, pending, readers, wire, handled,
                 broadcasts, dialed, intruder_sent>>
blockVars   == <<block_running, block_pc, last_height, block_current_height,
                 block_todo, block_initial, block_poll, block_log>>
secretVars  == <<secret_height, burns>>
withdrawVars == <<last_withdrawal_check_height, wd_pc, wd_initial, wd_handed>>
shutdownVars == <<bridge_running, sessions_open, db_open, stopped, flow>>
\* the state added for the block-based monitor, the withdrawal monitor and
\* the bridge's life cycle
transportVars == <<p2p_running, p2p_server, p2p_connections, writers,
                   reachable, connect_pos, failed_dials, bcast, bcast_log,
                   stop_pc>>
\* the state added for the life cycles of the transport and of the monitors
loopVars    == <<loop_tasks, start_calls, loop_polls>>
lateVars    == <<transportVars, wd_poll, loopVars>>
moreVars    == <<blockVars, secretVars, withdrawVars, shutdownVars, frost_init,
                 lateVars>>

---------------------------------------------------------------------------
(* Bounds of the model *)

\* highest chain height explored
MaxHeight == 4
\* remote participants of the transport's life-cycle model
NumRemotes == 2
\* StreamWriter objects one transport can create in a run
MaxWriters == 3
\* start() calls made on one deposit monitor
MaxStarts == 3
\* poll cycles followed per run of the start/stop model
MaxPolls == 4
\* min_confirmations of the run (BridgeConfig.min_confirmations, scaled down)
MinConfirmations == 3
\* number of concurrent generate_subaddress callers
NumCallers == 2
\* cap on the mint / send / delivery logs
MaxLog == 2
\* number of concurrent mark_*_processed callers
NumLedgerCalls == 2
\* largest number of FROST participants a coordinator is constructed for
MaxParticipants == 3
\* number of bridge nodes, each configured with the others as peers
NumPeers == 2
\* broadcast() calls per node
MaxBroadcasts == 1
\* lines an unconfigured sender writes
MaxIntruderLines == 1

---------------------------------------------------------------------------
(* Values *)

\* Python's None
None == "None"
\* an un-awaited coroutine object (what calling an `async def` returns)
Coroutine == "coroutine"

\* Secret Network addresses of users
Identities == {"U1", "U2"}
\* Monero transaction ids
TxHashes == {"t1", "t2"}
\* Secret Network burn transaction hashes
BurnHashes == {"b1", "b2"}
\* amounts in atomic units
Amounts == {1, 2}
\* subaddress minor indices a transfer on chain pays to (0 with major 0 is
\* the primary address)
Minors == {0, 1, 2}

Max(S) == CHOOSE x \in S : \A y \in S : y <= x

\* every ordering of a finite set, as sequences without repetition
RECURSIVE Orderings(_)
Orderings(S) ==
    IF S = {} THEN {<<>>}
    ELSE UNION {{<<x>> \o s : s \in Orderings(S \ {x})} : x \in S}

\* number of entries of log that satisfy P
Count(log, P(_)) == Cardinality({i \in DOMAIN log : P(log[i])})

---------------------------------------------------------------------------
(* BridgeDatabase (src/database.py): each table is the set of its rows *)

\* MoneroWalletManager._derive_subaddress: the wallet's subaddress at
\* (major, minor); the derivation is a function of the pair
DeriveSubaddress(account, index) == <<"subaddr", account, index>>

\* INSERT OR REPLACE INTO subaddress_mappings, PRIMARY KEY (account, index)
SaveSubaddressMapping(tbl, account, index, subaddress, secret_address) ==
    {r \in tbl : ~(r.account = account /\ r.subaddress_index = index)}
        \cup {[account |-> account, subaddress_index |-> index,
               subaddress |-> subaddress, secret_address |-> secret_address]}

\* SELECT secret_address ... WHERE account = ? AND subaddress_index = ?
GetSecretAddressForSubaddress(tbl, account, index) ==
    LET rows == {r \in tbl : r.account = account /\ r.subaddress_index = index}
    IN  IF rows = {} THEN None ELSE (CHOOSE r \in rows : TRUE).secret_address

\* SELECT ... WHERE secret_address = ?: the rows fetchone() may return
\* (no ORDER BY: any matching row)
RowsForSecretAddress(tbl, secret_address) ==
    {r \in tbl : r.secret_address = secret_address}

\* get_next_subaddress_index counting from 0: the first index handed out is
\* the primary address
GetNextSubaddressIndexFromZero(tbl, account) ==
    LET idx == {r.subaddress_index : r \in {x \in tbl : x.account = account}}
    IN  IF idx = {} THEN 0 ELSE Max(idx) + 1

\* SELECT MAX(subaddress_index) ... WHERE account = ?; None counts as 0
GetNextSubaddressIndex(tbl, account) ==
    LET idx == {r.subaddress_index : r \in {x \in tbl : x.account = account}}
    IN  (IF idx = {} THEN 0 ELSE Max(idx)) + 1

\* SELECT 1 FROM processed_deposits WHERE tx_hash = ?
IsDepositProcessed(tbl, tx_hash) == \E r \in tbl : r.tx_hash = tx_hash

\* A plain INSERT: a second row for a stored key violates the PRIMARY KEY
InsertDeposit(tbl, tx_hash, amount, subaddress, secret_address, secret_tx_hash) ==
    IF \E r \in tbl : r.tx_hash = tx_hash
    THEN [table |-> tbl, error |-> TRUE]
    ELSE [table |-> tbl \cup {[tx_hash |-> tx_hash, amount |-> amount,
                               subaddress |-> subaddress,
                               secret_address |-> secret_address,
                               secret_tx_hash |-> secret_tx_hash]},
          error |-> FALSE]

\* INSERT OR REPLACE INTO processed_deposits, PRIMARY KEY tx_hash:
\* the statement's result table and whether it raised
MarkDepositProcessed(tbl, tx_hash, amount, subaddress, secret_address, secret_tx_hash) ==
    [table |-> {r \in tbl : r.tx_hash # tx_hash}
                   \cup {[tx_hash |-> tx_hash, amount |-> amount,
                          subaddress |-> subaddress,
                          secret_address |-> secret_address,
                          secret_tx_hash |-> secret_tx_hash]},
     error |-> FALSE]

\* SELECT 1 FROM processed_withdrawals WHERE secret_tx_hash = ?
IsWithdrawalProcessed(tbl, secret_tx_hash) ==
    \E r \in tbl : r.secret_tx_hash = secret_tx_hash

\* INSERT OR REPLACE INTO processed_withdrawals, PRIMARY KEY secret_tx_hash
MarkWithdrawalProcessed(tbl, secret_tx_hash, amount, monero_address, monero_tx_hash) ==
    [table |-> {r \in tbl : r.secret_tx_hash # secret_tx_hash}
                   \cup {[secret_tx_hash |-> secret_tx_hash, amount |-> amount,
                          monero_address |-> monero_address,
                          monero_tx_hash |-> monero_tx_hash]},
     error |-> FALSE]

---------------------------------------------------------------------------
(* Monero chain and the RPC queries of MoneroWalletManager *)

\* one incoming transfer as the wallet RPC reports it
Transfer(txid, amount, minor, height) ==
    [txid |-> txid, amount |-> amount, major |-> 0, minor |-> minor,
     address |-> DeriveSubaddress(0, minor), height |-> height]

\* get_block_height: the RPC's count, 0 when the call raised
GetBlockHeight(rpc_ok) == IF rpc_ok THEN chain_height ELSE 0

\* get_transfers' loop body: a transfer becomes a MoneroDeposit
ToDeposit(t) ==
    [tx_hash |-> t.txid, amount |-> t.amount, subaddress |-> t.address,
     subaddress_index |-> <<t.major, t.minor>>, block_height |-> t.height]

\* get_transfers(min_height): filter_by_height returns the transfers above
\* min_height; the primary address (0/0) is skipped; [] when the call raised
GetTransfers(rpc_ok, min_height) ==
    IF ~rpc_ok THEN {}
    ELSE {ToDeposit(t) : t \in {x \in transfers :
              /\ x.height > min_height
              /\ ~(x.major = 0 /\ x.minor = 0)}}

\* get_user_for_subaddress, awaited: the mapped identity or None
GetUserForSubaddress(tbl, account, index) ==
    GetSecretAddressForSubaddress(tbl, account, index)

---------------------------------------------------------------------------
(* SimpleBridge._on_deposit (src/bridge.py) *)

\* the tx hash _broadcast_tx returns for the n-th mint call
SecretTxHash(n) == <<"mint", n>>

\* how the two awaited calls of a handler can end: both return, the ledger
\* write raises, or the counterpart action raises (the write is not reached)
CallOutcomes ==
    {[mint_ok |-> TRUE, mark_ok |-> TRUE], [mint_ok |-> TRUE, mark_ok |-> FALSE],
     [mint_ok |-> FALSE, mark_ok |-> FALSE]}

\* _on_deposit without the is_deposit_processed check of lines 198-201
OnDepositNoLedgerCheck(st, mappings, deposit, mint_ok, mark_ok) ==
    LET user_id == GetUserForSubaddress(mappings, deposit.subaddress_index[1],
                                        deposit.subaddress_index[2])
    IN
    IF user_id = None THEN st
    ELSE
      LET call == [tx_hash |-> deposit.tx_hash, recipient |-> user_id,
                   amount |-> deposit.amount,
                   subaddress_index |-> deposit.subaddress_index,
                   ok |-> mint_ok]
          st1  == [st EXCEPT !.mints = Append(@, call)]
          mark == MarkDepositProcessed(st.processed_deposits, deposit.tx_hash,
                      deposit.amount, deposit.subaddress, user_id,
                      SecretTxHash(Len(st1.mints)))
      IN
      IF ~mint_ok THEN st1
      ELSE IF ~mark_ok \/ mark.error THEN st1
      ELSE [st1 EXCEPT !.processed_deposits = mark.table]

\* _on_deposit on the ledger and the mint log carried in st; mint_ok and
\* mark_ok say whether secret_client.mint / db.mark_deposit_processed return
\* or raise (both raises end in the except clause)
OnDeposit(st, mappings, deposit, mint_ok, mark_ok) ==
    IF IsDepositProcessed(st.processed_deposits, deposit.tx_hash) THEN st
    ELSE
      LET user_id == GetUserForSubaddress(mappings, deposit.subaddress_index[1],
                                          deposit.subaddress_index[2])
      IN
      IF user_id = None THEN st
      ELSE
        LET call == [tx_hash |-> deposit.tx_hash, recipient |-> user_id,
                     amount |-> deposit.amount,
                     subaddress_index |-> deposit.subaddress_index,
                     ok |-> mint_ok]
            st1  == [st EXCEPT !.mints = Append(@, call)]
            mark == MarkDepositProcessed(st.processed_deposits, deposit.tx_hash,
                        deposit.amount, deposit.subaddress, user_id,
                        SecretTxHash(Len(st1.mints)))
        IN
        IF ~mint_ok THEN st1
        ELSE IF ~mark_ok \/ mark.error THEN st1
        ELSE [st1 EXCEPT !.processed_deposits = mark.table]

---------------------------------------------------------------------------
(* MoneroDepositMonitor (src/monero_monitor.py) *)

\* Confirmations counting one block too many
ConfirmationsOffByOne(cur, block_height) == cur - block_height + 2

\* confirmations = current_height - deposit.block_height + 1
Confirmations(cur, block_height) == cur - block_height + 1

\* line 127: get_user_for_subaddress is an `async def` called without await,
\* so user_id is a coroutine object whatever the mapping table holds
MonitorUserLookup(tbl, account, index) == Coroutine

\* `if not user_id`
Truthy(v) == v # None

\* `user_id[:8]` in the log line's f-string: a coroutine is not
\* subscriptable (TypeError)
Subscriptable(v) == v # Coroutine

\* _process_deposit with the lookup awaited and without the processed_txs
\* check and update: every confirmed deposit returned is handed on again
ProcessDepositNoDedup(st, mappings, deposit, cur, mint_ok, mark_ok) ==
    IF Confirmations(cur, deposit.block_height) < MinConfirmations THEN st
    ELSE
      LET user_id == GetUserForSubaddress(mappings, deposit.subaddress_index[1],
                                          deposit.subaddress_index[2])
          st1 == [st EXCEPT !.gated = @ \cup {deposit}]
      IN
      IF ~Truthy(user_id) THEN st1
      ELSE OnDeposit([st1 EXCEPT !.delivered = Append(@, deposit)],
                     mappings, deposit, mint_ok, mark_ok)

\* _process_deposit on the state carried in st
ProcessDeposit(st, mappings, deposit, cur, mint_ok, mark_ok) ==
    IF deposit.tx_hash \in st.processed_txs THEN st
    ELSE
      LET confirmations == Confirmations(cur, deposit.block_height) IN
      IF confirmations < MinConfirmations THEN st
      ELSE
        LET user_id == MonitorUserLookup(mappings, deposit.subaddress_index[1],
                                         deposit.subaddress_index[2])
            st1 == [st EXCEPT !.gated = @ \cup {deposit}]
        IN
        IF ~Truthy(user_id) THEN st1
        ELSE IF ~Subscriptable(user_id) THEN [st1 EXCEPT !.raised = TRUE]
        ELSE OnDeposit([st1 EXCEPT !.processed_txs = @ \cup {deposit.tx_hash},
                                   !.delivered = Append(@, deposit)],
                       mappings, deposit, mint_ok, mark_ok)

\* the `for deposit in deposits` loop of _check_deposits; an exception
\* raised by _process_deposit leaves the loop
RECURSIVE ProcessAll(_, _, _, _, _, _)
ProcessAll(st, mappings, deposits, cur, mint_ok, mark_ok) ==
    IF deposits = <<>> \/ st.raised THEN st
    ELSE ProcessAll(ProcessDeposit(st, mappings, Head(deposits), cur, mint_ok, mark_ok),
                    mappings, Tail(deposits), cur, mint_ok, mark_ok)

\* the state _check_deposits reads and writes, as one record
MonitorState ==
    [processed_txs |-> processed_txs, processed_deposits |-> processed_deposits,
     mints |-> mints, delivered |-> delivered, gated |-> {}, raised |-> FALSE]

\* lastPoll before any poll cycle; start is the watermark start() set, before
\* the watermark the monitor held when the cycle began (or when it was killed)
NoPoll ==
    [kind |-> "none", start |-> 0, before |-> 0, cur |-> 0, transfers_ok |-> TRUE,
     returned |-> {}, gated |-> {}, handed |-> {}, raised |-> FALSE]

\* MoneroDepositMonitor.start: the watermark starts at the current height
\* (0 when the query failed) and the loop task is created
Start ==
    /\ mon_pc = "new"
    /\ \E rpc_ok \in BOOLEAN :
         /\ last_checked_height' = GetBlockHeight(rpc_ok)
         /\ lastPoll' = [NoPoll EXCEPT !.kind = IF lastPoll.kind = "killed"
                                                THEN "restarted" ELSE "started",
                                       !.start = GetBlockHeight(rpc_ok),
                                       !.before = lastPoll.before]
    /\ running' = TRUE
    /\ mon_pc' = "loop"
    /\ UNCHANGED moreVars
    /\ UNCHANGED <<chainVars, processed_txs, current_height, delivered,
                   subaddress_mappings, ledgerVars, mints, sends, allocVars, calls, lastCall,
                   signerVars, netVars>>

\* _check_deposits without the `if current_height == 0: return` of lines
\* 81-83: the cycle goes on to the transfers query whatever the height
CheckDepositsHeightUnguarded ==
    /\ mon_pc = "loop"
    /\ running
    /\ \E rpc_ok \in BOOLEAN :
         /\ current_height' = GetBlockHeight(rpc_ok)
         /\ mon_pc' = "fetched"
         /\ UNCHANGED lastPoll
    /\ UNCHANGED moreVars
    /\ UNCHANGED <<chainVars, running, last_checked_height, processed_txs, delivered,
                   subaddress_mappings, ledgerVars, mints, sends, allocVars, calls, lastCall,
                   signerVars, netVars>>

\* _check_deposits, lines 79-83: the height query
CheckDepositsHeight ==
    /\ mon_pc = "loop"
    /\ running
    /\ \E rpc_ok \in BOOLEAN :
         LET cur == GetBlockHeight(rpc_ok) IN
         IF cur = 0
         THEN /\ lastPoll' = [NoPoll EXCEPT !.kind = "height_failed",
                                            !.start = lastPoll.start,
                                            !.before = last_checked_height]
              /\ UNCHANGED <<mon_pc, current_height>>
         ELSE /\ current_height' = cur
              /\ mon_pc' = "fetched"
              /\ UNCHANGED lastPoll
    /\ UNCHANGED moreVars
    /\ UNCHANGED <<chainVars, running, last_checked_height, processed_txs, delivered,
                   subaddress_mappings, ledgerVars, mints, sends, allocVars, calls, lastCall,
                   signerVars, netVars>>

\* _check_deposits, lines 86-100: the transfers query, the loop over the
\* deposits and the watermark update; an exception raised in the loop is
\* caught by _monitor_loop and the watermark keeps its value
CheckDepositsTransfers ==
    /\ mon_pc = "fetched"
    /\ Len(delivered) < MaxLog
    /\ Len(mints) < MaxLog
    /\ \E rpc_ok \in BOOLEAN, io \in CallOutcomes :
       \E deposits \in Orderings(GetTransfers(rpc_ok, last_checked_height)) :
         LET st == ProcessAll(MonitorState, subaddress_mappings, deposits,
                              current_height, io.mint_ok, io.mark_ok)
         IN
         /\ processed_txs' = st.processed_txs
         /\ processed_deposits' = st.processed_deposits
         /\ mints' = st.mints
         /\ delivered' = st.delivered
         /\ last_checked_height' =
                IF st.raised THEN last_checked_height ELSE current_height
         /\ lastPoll' = [kind |-> "done", start |-> lastPoll.start,
                         before |-> last_checked_height,
                         cur |-> current_height, transfers_ok |-> rpc_ok,
                         returned |-> {deposits[i] : i \in DOMAIN deposits},
                         gated |-> st.gated,
                         handed |-> {st.delivered[i] : i \in
                                       (Len(delivered) + 1)..Len(st.delivered)},
                         raised |-> st.raised]
    /\ mon_pc' = "loop"
    /\ UNCHANGED moreVars
    /\ UNCHANGED <<chainVars, running, current_height, subaddress_mappings,
                   processed_withdrawals, sends, allocVars, calls, lastCall,
                   signerVars, netVars>>

\* the chain grows by one block, which may hold one new transaction paying
\* one or two subaddresses of the bridge wallet (the blocks before the
\* monitor starts are the chain of Init)
MineBlock ==
    /\ mon_pc # "new"
    /\ chain_height < MaxHeight
    /\ chain_height' = chain_height + 1
    /\ \/ UNCHANGED transfers
       \/ \E txid \in TxHashes, outs \in SUBSET Minors, amount \in {1} :
            /\ \A t \in transfers : t.txid # txid
            /\ Cardinality(outs) \in {1, 2}
            /\ transfers' = transfers \cup
                 {Transfer(txid, amount, m, chain_height + 1) : m \in outs}
    /\ UNCHANGED moreVars
    /\ UNCHANGED <<monitorVars, subaddress_mappings, ledgerVars, mints, sends,
                   allocVars, calls, lastCall, signerVars,
                   netVars>>

\* the mapping tables generate_subaddress leaves when called for U1, then
\* for U2
SequentialMappings ==
    { {[account |-> 0, subaddress_index |-> 1,
        subaddress |-> DeriveSubaddress(0, 1), secret_address |-> "U1"]},
      {[account |-> 0, subaddress_index |-> 1,
        subaddress |-> DeriveSubaddress(0, 1), secret_address |-> "U1"],
       [account |-> 0, subaddress_index |-> 2,
        subaddress |-> DeriveSubaddress(0, 2), secret_address |-> "U2"]} }

\* the bridge nodes; node n lists every other node in peer_addresses
Nodes == 1..NumPeers
\* a sender no node has configured as a peer
Intruder == NumPeers + 1
\* a connection id not in use
NoLink == [dialer |-> 0, listener |-> 0]
\* connection ids: one per configured peer address, one for the intruder
ConnIds == 1..(NumPeers * (NumPeers - 1) + 1)

IdleGen == [c \in 1..NumCallers |-> [pc |-> "idle", user |-> None, index |-> 0]]
IdleCalls == [k \in 1..NumLedgerCalls |-> [pc |-> "idle", args |-> None]]
\* lastCall before any handler call; had_row says whether the ledger held a
\* row for the event when the handler was entered
NoCall == [handler |-> "none", tx_hash |-> None, had_row |-> FALSE]

\* the two flows a shutdown can meet in flight
Flows == {"deposit", "withdrawal"}
\* no handler call in flight; submitted says the counterpart action was
\* handed to its chain, late that the flow acted after stop() had returned
IdleFlow == [pc |-> "idle", key |-> None, minor |-> 0, submitted |-> FALSE,
             late |-> FALSE]

\* wd_poll before the first height query of monitor_withdrawals
NotPolled == -1

\* the remote participants: config.peer_addresses, in the order of the list
Remotes == 1..NumRemotes

\* the StreamWriter objects of the transport under study
WriterIds == 1..MaxWriters

\* a writer not yet created
NoWriter ==
    [peer |-> 0, outbound |-> FALSE, handler |-> "none", closing |-> FALSE,
     eof |-> FALSE, got |-> 0]

\* no broadcast() call in flight; n counts the calls made
IdleBroadcast == [pc |-> "idle", i |-> 0, n |-> 0, start |-> <<>>, written |-> {},
                  failed |-> {}]

\* bcast_log before any broadcast() call returned
NoBroadcast ==
    [n |-> 0, start |-> <<>>, final |-> <<>>, written |-> {}, failed |-> {},
     open |-> {}, raised |-> FALSE]

\* the objects as SimpleBridge.__init__ and the start() of the database and
\* of the two clients leave them, the identity mappings aside
InitObjects ==
    /\ chain_height = 1
    /\ transfers = {}
    /\ running = FALSE
    /\ last_checked_height = 0
    /\ processed_txs = {}
    /\ mon_pc = "new"
    /\ current_height = 0
    /\ lastPoll = NoPoll
    /\ delivered = <<>>
    /\ processed_deposits = {}
    /\ processed_withdrawals = {}
    /\ mints = <<>>
    /\ sends = <<>>
    /\ gen = IdleGen
    /\ issued = {}
    /\ calls = IdleCalls
    /\ lastCall = NoCall
    /\ connections = [n \in Nodes |-> <<>>]
    /\ links = [c \in ConnIds |-> NoLink]
    /\ pending = {}
    /\ readers = {}
    /\ wire = [c \in ConnIds |-> [dialer |-> <<>>, listener |-> <<>>]]
    /\ handled = [n \in Nodes |-> <<>>]
    /\ broadcasts = [n \in Nodes |-> 0]
    /\ dialed = {}
    /\ intruder_sent = 0
    /\ block_running = FALSE
    /\ block_pc = "new"
    /\ last_height = 0
    /\ block_current_height = 0
    /\ block_todo = <<>>
    /\ block_initial = 0
    /\ block_poll = [last |-> 0, max |-> 0, rewound |-> FALSE]
    /\ block_log = <<>>
    /\ secret_height = 1
    /\ burns = {}
    /\ bridge_running = FALSE
    /\ last_withdrawal_check_height = 0
    /\ wd_pc = "new"
    /\ wd_initial = 0
    /\ wd_handed = {}
    /\ sessions_open = TRUE
    /\ db_open = TRUE
    /\ stopped = FALSE
    /\ flow = [f \in Flows |-> IdleFlow]
    /\ p2p_running = FALSE
    /\ p2p_server = FALSE
    /\ p2p_connections = <<>>
    /\ writers = [w \in WriterIds |-> NoWriter]
    /\ reachable = {}
    /\ connect_pos = 0
    /\ failed_dials = {}
    /\ bcast = IdleBroadcast
    /\ bcast_log = NoBroadcast
    /\ stop_pc = [pc |-> "no", i |-> 0]
    /\ wd_poll = NotPolled
    /\ loop_tasks = 0
    /\ start_calls = 0
    /\ loop_polls = 0

\* Python's b""
EmptyBytes == ""

\* FrostCoordinator.__init__(t, n), which raises unless t <= n, and
\* FrostParticipant.__init__ for the participants 1..n
FrostObjects(t, n) ==
    /\ t <= n
    /\ threshold = t
    /\ total_participants = n
    /\ coordinator_public_key = EmptyBytes
    /\ secret_share = [p \in 1..n |-> None]
    /\ public_key = [p \in 1..n |-> None]
    /\ frost_last = [op |-> "none", count |-> 0, honest |-> FALSE,
                     result |-> None]
    /\ frost_init = [threshold |-> t, total_participants |-> n,
                     result |-> None]

\* the signer of the bridge process: 2 of 3
InitSigner == FrostObjects(2, 3)

\* the pipeline starts with identities already mapped
Init ==
    /\ InitObjects
    /\ InitSigner
    /\ subaddress_mappings \in SequentialMappings

Next ==
    \/ Start
    \/ CheckDepositsHeight
    \/ CheckDepositsTransfers
    \/ MineBlock

Spec == Init /\ [][Next]_vars

---------------------------------------------------------------------------
(* Spec: the deposit pipeline *)

\* the deposits on chain
ChainDeposits == {ToDeposit(t) : t \in transfers}

\* a deposit to a subaddress that has an identity mapping
Mapped(d) ==
    GetUserForSubaddress(subaddress_mappings, d.subaddress_index[1],
                         d.subaddress_index[2]) # None

ConfirmationGating ==
    lastPoll.kind = "done" =>
        \A d \in lastPoll.gated \cup lastPoll.handed :
            lastPoll.cur - d.block_height + 1 >= MinConfirmations

\* C2's case: a poll returned a deposit with too few confirmations next to
\* one with enough; only the latter got past the check
UnconfirmedDepositHeldBack ==
    /\ lastPoll.kind = "done"
    /\ \E d \in lastPoll.returned :
         /\ lastPoll.cur - d.block_height + 1 < MinConfirmations
         /\ d \notin lastPoll.gated
    /\ lastPoll.gated # {}

\* C3: every deposit to a mapped subaddress, in a block above the watermark
\* the monitor started from, has been delivered to on_deposit exactly once
\* as soon as a completed poll cycle has observed
\* currentHeight >= depositHeight + min_confirmations - 1.
DeliveredOnceWhenConfirmed ==
    \A d \in ChainDeposits :
        ( /\ Mapped(d)
          /\ d.block_height > lastPoll.start
          /\ lastPoll.kind = "done"
          /\ lastPoll.transfers_ok
          /\ lastPoll.cur >= d.block_height + MinConfirmations - 1 )
        => Cardinality({i \in DOMAIN delivered : delivered[i] = d}) = 1

\* C10: a poll cycle in which the height query or the transfers query
\* failed leaves last_checked_height where it was.
WatermarkKeptOnQueryFailure ==
    ( \/ lastPoll.kind = "height_failed"
      \/ lastPoll.kind = "done" /\ ~lastPoll.transfers_ok )
    => last_checked_height = lastPoll.before

---------------------------------------------------------------------------
(* SimpleBridge._handle_withdrawal (src/bridge.py) *)

\* the tx hash send_transaction returns for the n-th send
MoneroTxHash(n) == <<"xmr", n>>

\* how send_transaction can end: it returns the tx hash, raises
\* NotImplementedError (no wallet RPC configured) or raises another exception
SendResults == {"sent", "not_implemented", "error"}

\* _handle_withdrawal with mark_withdrawal_processed moved out of the try
\* block: the row is written however send_transaction ended
HandleWithdrawalMarkAlways(st, burn_event, send_result, mark_ok) ==
    IF IsWithdrawalProcessed(st.processed_withdrawals, burn_event.tx_hash) THEN st
    ELSE
      LET call == [tx_hash |-> burn_event.tx_hash,
                   destination |-> burn_event.monero_address,
                   amount |-> burn_event.amount, result |-> send_result]
          st1  == [st EXCEPT !.sends = Append(@, call)]
          mark == MarkWithdrawalProcessed(st.processed_withdrawals,
                      burn_event.tx_hash, burn_event.amount,
                      burn_event.monero_address, MoneroTxHash(Len(st1.sends)))
      IN
      IF ~mark_ok \/ mark.error THEN st1
      ELSE [st1 EXCEPT !.processed_withdrawals = mark.table]

\* _handle_withdrawal on the ledger and the send log carried in st
HandleWithdrawal(st, burn_event, send_result, mark_ok) ==
    IF IsWithdrawalProcessed(st.processed_withdrawals, burn_event.tx_hash) THEN st
    ELSE
      LET call == [tx_hash |-> burn_event.tx_hash,
                   destination |-> burn_event.monero_address,
                   amount |-> burn_event.amount, result |-> send_result]
          st1  == [st EXCEPT !.sends = Append(@, call)]
          mark == MarkWithdrawalProcessed(st.processed_withdrawals,
                      burn_event.tx_hash, burn_event.amount,
                      burn_event.monero_address, MoneroTxHash(Len(st1.sends)))
      IN
      IF send_result # "sent" THEN st1
      ELSE IF ~mark_ok \/ mark.error THEN st1
      ELSE [st1 EXCEPT !.processed_withdrawals = mark.table]

---------------------------------------------------------------------------
(* SpecBridge: the bridge's handlers, each driven by its caller *)

Callers == 1..NumCallers

\* the deposits a caller of _on_deposit can hand it: get_transfers never
\* yields the primary address
DepositEvents ==
    {ToDeposit(Transfer(txid, 1, minor, 1)) :
        txid \in TxHashes, minor \in Minors \ {0}}

\* the burn events a caller of _handle_withdrawal can hand it
BurnEvents ==
    {[tx_hash |-> h, amount |-> 1, monero_address |-> "xmr_addr",
      secret_address |-> "U1", block_height |-> 1] : h \in BurnHashes}

\* what generate_subaddress returned to a caller
Issued(user, account, index, subaddress) ==
    [user |-> user, account |-> account, index |-> index,
     subaddress |-> subaddress]

\* generate_subaddress is called for user_identifier
GenCall(c) ==
    /\ gen[c].pc = "idle"
    /\ \E u \in Identities :
         gen' = [gen EXCEPT ![c] = [pc |-> "check", user |-> u, index |-> 0]]
    /\ UNCHANGED moreVars
    /\ UNCHANGED <<chainVars, monitorVars, subaddress_mappings, ledgerVars,
                   mints, sends, issued, calls, lastCall, signerVars,
                   netVars>>

\* generate_subaddress, lines 121-126: the existing mapping, if any, is
\* returned
GenCheck(c) ==
    /\ gen[c].pc = "check"
    /\ LET rows == RowsForSecretAddress(subaddress_mappings, gen[c].user) IN
       IF rows # {}
       THEN \E r \in rows :
              /\ issued' = issued \cup
                   {Issued(gen[c].user, r.account, r.subaddress_index, r.subaddress)}
              /\ gen' = [gen EXCEPT ![c] = [pc |-> "idle", user |-> None,
                                            index |-> 0]]
       ELSE /\ gen' = [gen EXCEPT ![c].pc = "next_index"]
            /\ UNCHANGED issued
    /\ UNCHANGED moreVars
    /\ UNCHANGED <<chainVars, monitorVars, subaddress_mappings, ledgerVars,
                   mints, sends, calls, lastCall, signerVars,
                   netVars>>

\* generate_subaddress, lines 129-136: the next index of account 0 is read
GenNextIndex(c) ==
    /\ gen[c].pc = "next_index"
    /\ gen' = [gen EXCEPT ![c].pc = "save",
                          ![c].index = GetNextSubaddressIndex(subaddress_mappings, 0)]
    /\ UNCHANGED moreVars
    /\ UNCHANGED <<chainVars, monitorVars, subaddress_mappings, ledgerVars,
                   mints, sends, issued, calls, lastCall, signerVars,
                   netVars>>

\* generate_subaddress, lines 139-148: the mapping is stored and the
\* subaddress returned
GenSave(c) ==
    /\ gen[c].pc = "save"
    /\ subaddress_mappings' =
         SaveSubaddressMapping(subaddress_mappings, 0, gen[c].index,
                               DeriveSubaddress(0, gen[c].index), gen[c].user)
    /\ issued' = issued \cup
         {Issued(gen[c].user, 0, gen[c].index, DeriveSubaddress(0, gen[c].index))}
    /\ gen' = [gen EXCEPT ![c] = [pc |-> "idle", user |-> None, index |-> 0]]
    /\ UNCHANGED moreVars
    /\ UNCHANGED <<chainVars, monitorVars, ledgerVars, mints, sends, calls, lastCall,
                   signerVars, netVars>>

\* the state _on_deposit and _handle_withdrawal read and write, as one record
BridgeState ==
    [processed_deposits |-> processed_deposits, mints |-> mints,
     processed_withdrawals |-> processed_withdrawals, sends |-> sends]

\* _on_deposit is invoked with a deposit
OnDepositCall ==
    /\ Len(mints) < MaxLog
    /\ \E d \in DepositEvents, io \in CallOutcomes :
         LET st == OnDeposit(BridgeState, subaddress_mappings, d,
                             io.mint_ok, io.mark_ok)
         IN  /\ processed_deposits' = st.processed_deposits
             /\ mints' = st.mints
             /\ lastCall' = [handler |-> "on_deposit", tx_hash |-> d.tx_hash,
                             had_row |-> IsDepositProcessed(processed_deposits,
                                                            d.tx_hash)]
    /\ UNCHANGED moreVars
    /\ UNCHANGED <<chainVars, monitorVars, subaddress_mappings,
                   processed_withdrawals, sends, allocVars, calls,
                   signerVars, netVars>>

\* _handle_withdrawal is invoked with a burn event
HandleWithdrawalCall ==
    /\ Len(sends) < MaxLog
    /\ \E b \in BurnEvents, send_result \in SendResults, mark_ok \in BOOLEAN :
         LET st == HandleWithdrawal(BridgeState, b, send_result, mark_ok)
         IN  /\ processed_withdrawals' = st.processed_withdrawals
             /\ sends' = st.sends
             /\ lastCall' = [handler |-> "handle_withdrawal",
                             tx_hash |-> b.tx_hash,
                             had_row |-> IsWithdrawalProcessed(
                                             processed_withdrawals, b.tx_hash)]
    /\ UNCHANGED moreVars
    /\ UNCHANGED <<chainVars, monitorVars, subaddress_mappings,
                   processed_deposits, mints, allocVars, calls, signerVars,
                   netVars>>

\* the bridge right after start(), with an empty database
InitBridge ==
    /\ InitObjects
    /\ InitSigner
    /\ subaddress_mappings = {}

NextBridge ==
    \/ \E c \in Callers : GenCall(c)
    \/ \E c \in Callers : GenCheck(c)
    \/ \E c \in Callers : GenNextIndex(c)
    \/ \E c \in Callers : GenSave(c)
    \/ OnDepositCall

SpecBridge == InitBridge /\ [][NextBridge]_vars

\* C4: generate_subaddress is idempotent per identity: every call for one
\* identity, under every interleaving of concurrent calls, returned the same
\* subaddress.
AllocationIdempotentPerIdentity ==
    \A i1, i2 \in issued :
        i1.user = i2.user => i1.subaddress = i2.subaddress

\* C5: no subaddress index is allocated to two different identities, and a
\* stored (account, index) row keeps the identity it was stored with.
IndexNeverSharedOrOverwritten ==
    /\ \A i1, i2 \in issued :
         (i1.account = i2.account /\ i1.index = i2.index) => i1.user = i2.user
    /\ \A i \in issued :
         GetSecretAddressForSubaddress(subaddress_mappings, i.account, i.index)
             \in {None, i.user}

\* C6: a successful mint for a deposit credits the identity the deposit's subaddress was
\* issued to: every identity that was handed that (account, index) is the
\* mint's recipient.
MintCreditsIssuedIdentity ==
    \A n \in DOMAIN mints :
        \A i \in issued :
            (mints[n].ok /\ mints[n].subaddress_index = <<i.account, i.index>>)
                => mints[n].recipient = i.user

---------------------------------------------------------------------------
(* SpecFlows: the deposit and the withdrawal flow, identities already mapped *)

NextFlows ==
    \/ OnDepositCall
    \/ HandleWithdrawalCall

SpecFlows == Init /\ [][NextFlows]_vars

\* C7: with no flow in progress, a ledger row exists for a source event iff
\* the counterpart action for it returned successfully at least once: a
\* deposit row iff a mint for the tx hash succeeded, a withdrawal row iff a
\* send for the burn succeeded.
RowIffCounterpartSucceeded ==
    /\ \A h \in TxHashes :
         IsDepositProcessed(processed_deposits, h)
             <=> \E n \in DOMAIN mints : mints[n].tx_hash = h /\ mints[n].ok
    /\ \A b \in BurnHashes :
         IsWithdrawalProcessed(processed_withdrawals, b)
             <=> \E n \in DOMAIN sends :
                     sends[n].tx_hash = b /\ sends[n].result = "sent"

\* C12: a deposit whose tx hash already has a processed_deposits row is
\* dropped by _on_deposit: the call issues no mint and writes nothing to the
\* ledger, also when processed_txs does not hold the hash (as after a restart).
DroppedWhenAlreadyProcessed ==
    [][ (lastCall'.handler = "on_deposit" /\ lastCall'.had_row)
          => /\ mints' = mints
             /\ processed_deposits' = processed_deposits ]_vars

\* C12's case: _on_deposit was entered with a deposit whose hash had a row
\* while the in-memory processed_txs set did not hold it
ProcessedDepositSeenAgain ==
    /\ lastCall.handler = "on_deposit"
    /\ lastCall.had_row
    /\ lastCall.tx_hash \notin processed_txs
    /\ \E n \in DOMAIN mints : mints[n].tx_hash = lastCall.tx_hash /\ mints[n].ok

\* C13: a failed counterpart action leaves the event unmarked: a step in
\* which mint raised, or send_transaction raised (NotImplementedError
\* included), changes neither ledger table.
FailedActionLeavesLedger ==
    [][ ( \/ /\ Len(mints') = Len(mints) + 1
             /\ ~mints'[Len(mints')].ok
          \/ /\ Len(sends') = Len(sends) + 1
             /\ sends'[Len(sends')].result # "sent" )
          => /\ processed_deposits' = processed_deposits
             /\ processed_withdrawals' = processed_withdrawals ]_vars

\* C13's case: a mint has raised and a send has raised NotImplementedError,
\* and neither event has a row
CounterpartActionsFailed ==
    /\ \E n \in DOMAIN mints :
         /\ ~mints[n].ok
         /\ ~IsDepositProcessed(processed_deposits, mints[n].tx_hash)
    /\ \E n \in DOMAIN sends :
         /\ sends[n].result = "not_implemented"
         /\ ~IsWithdrawalProcessed(processed_withdrawals, sends[n].tx_hash)

\* C15: at most one release per burn: over any sequence of withdrawal
\* cycles handing _handle_withdrawal the same burn event more than once, at
\* most one send_transaction succeeds for its burn tx hash.
AtMostOneReleasePerBurn ==
    \A b \in BurnHashes :
        Cardinality({n \in DOMAIN sends :
                        sends[n].tx_hash = b /\ sends[n].result = "sent"}) <= 1

\* C23: a ledger failure is fatal: once mark_deposit_processed or
\* mark_withdrawal_processed has raised after its counterpart action
\* succeeded (a successful mint or send whose event has no row), the
\* orchestrator performs no further mint or release.
LedgerFailureHalts ==
    [][ ( \/ \E n \in DOMAIN mints :
               /\ mints[n].ok
               /\ ~IsDepositProcessed(processed_deposits, mints[n].tx_hash)
          \/ \E n \in DOMAIN sends :
               /\ sends[n].result = "sent"
               /\ ~IsWithdrawalProcessed(processed_withdrawals,
                                         sends[n].tx_hash) )
          => /\ mints' = mints
             /\ sends' = sends ]_vars

---------------------------------------------------------------------------
(* SpecLedger: mark_deposit_processed / mark_withdrawal_processed called   *)
(* concurrently. Each call hands _save to the executor; _save runs         *)
(* conn.execute and conn.commit on the one shared connection.              *)

LedgerCallers == 1..NumLedgerCalls

\* the arguments of a mark_deposit_processed / mark_withdrawal_processed call
MarkArgs ==
    [table : {"deposits"}, key : TxHashes, amount : Amounts]
    \cup
    [table : {"withdrawals"}, key : BurnHashes, amount : Amounts]

\* the statement _save executes, on the table it names
ExecuteMark(args) ==
    IF args.table = "deposits"
    THEN MarkDepositProcessed(processed_deposits, args.key, args.amount,
                              DeriveSubaddress(0, 1), "U1", SecretTxHash(1))
    ELSE MarkWithdrawalProcessed(processed_withdrawals, args.key, args.amount,
                                 "xmr_addr", MoneroTxHash(1))

\* mark_*_processed is called: _save is queued on the executor
LedgerCall(k) ==
    /\ calls[k].pc = "idle"
    /\ \E args \in MarkArgs :
         calls' = [calls EXCEPT ![k] = [pc |-> "queued", args |-> args]]
    /\ UNCHANGED moreVars
    /\ UNCHANGED <<chainVars, monitorVars, subaddress_mappings, ledgerVars,
                   mints, sends, allocVars, lastCall, signerVars,
                   netVars>>

\* _save: conn.execute(INSERT OR REPLACE ...)
LedgerExecute(k) ==
    /\ calls[k].pc = "queued"
    /\ LET res == ExecuteMark(calls[k].args) IN
       /\ calls' = [calls EXCEPT ![k].pc = IF res.error THEN "failed"
                                                         ELSE "executed"]
       /\ IF calls[k].args.table = "deposits"
          THEN /\ processed_deposits' = res.table
               /\ UNCHANGED processed_withdrawals
          ELSE /\ processed_withdrawals' = res.table
               /\ UNCHANGED processed_deposits
    /\ UNCHANGED moreVars
    /\ UNCHANGED <<chainVars, monitorVars, subaddress_mappings, mints, sends,
                   allocVars, lastCall, signerVars,
                   netVars>>

\* _save: conn.commit()
LedgerCommit(k) ==
    /\ calls[k].pc = "executed"
    /\ calls' = [calls EXCEPT ![k].pc = "done"]
    /\ UNCHANGED moreVars
    /\ UNCHANGED <<chainVars, monitorVars, subaddress_mappings, ledgerVars,
                   mints, sends, allocVars, lastCall, signerVars,
                   netVars>>

\* the awaiting caller resumes with the result (or the exception)
LedgerReturn(k) ==
    /\ calls[k].pc \in {"done", "failed"}
    /\ calls' = [calls EXCEPT ![k] = [pc |-> "idle", args |-> None]]
    /\ UNCHANGED moreVars
    /\ UNCHANGED <<chainVars, monitorVars, subaddress_mappings, ledgerVars,
                   mints, sends, allocVars, lastCall, signerVars,
                   netVars>>

NextLedger ==
    \/ \E k \in LedgerCallers : LedgerCall(k)
    \/ \E k \in LedgerCallers : LedgerExecute(k)
    \/ \E k \in LedgerCallers : LedgerCommit(k)
    \/ \E k \in LedgerCallers : LedgerReturn(k)

SpecLedger == InitBridge /\ [][NextLedger]_vars

\* C8: two concurrent mark_deposit_processed calls with identical arguments
\* both complete without error, and exactly one row for the hash results.
TwoIdenticalMarksOneRow ==
    \A k1, k2 \in LedgerCallers :
        ( /\ k1 # k2
          /\ calls[k1].pc \in {"executed", "done", "failed"}
          /\ calls[k2].pc \in {"executed", "done", "failed"}
          /\ calls[k1].args = calls[k2].args
          /\ calls[k1].args.table = "deposits" )
        => /\ calls[k1].pc # "failed"
           /\ calls[k2].pc # "failed"
           /\ Cardinality({r \in processed_deposits :
                              r.tx_hash = calls[k1].args.key}) = 1

\* C8 witness: two identical calls have both executed their statement while
\* neither has committed or returned
TwoIdenticalMarksInFlight ==
    \E k1, k2 \in LedgerCallers :
        /\ k1 # k2
        /\ calls[k1].pc = "executed"
        /\ calls[k2].pc = "executed"
        /\ calls[k1].args = calls[k2].args
        /\ calls[k1].args.table = "deposits"

\* C9: a ProcessedRecord is write-once: every stored row, in either table,
\* is still stored unchanged after any later step.
ProcessedRecordWriteOnce ==
    [][ /\ \A r \in processed_deposits : r \in processed_deposits'
        /\ \A r \in processed_withdrawals : r \in processed_withdrawals' ]_vars

---------------------------------------------------------------------------
(* SpecRestart: the deposit pipeline with the process killed and started   *)
(* again. The database file survives; the objects are constructed anew.    *)

\* the process is killed mid-cycle: MoneroDepositMonitor.__init__ runs again
\* on the next start (processed_txs empty, last_checked_height 0)
Kill ==
    /\ mon_pc \in {"loop", "fetched"}
    /\ running' = FALSE
    /\ last_checked_height' = 0
    /\ processed_txs' = {}
    /\ current_height' = 0
    /\ mon_pc' = "new"
    /\ lastPoll' = [NoPoll EXCEPT !.kind = "killed", !.start = lastPoll.start,
                                  !.before = last_checked_height]
    /\ UNCHANGED moreVars
    /\ UNCHANGED <<chainVars, delivered, subaddress_mappings, ledgerVars, mints,
                   sends, allocVars, calls, lastCall, signerVars,
                   netVars>>

NextRestart ==
    \/ Start
    \/ CheckDepositsHeight
    \/ CheckDepositsTransfers
    \/ MineBlock
    \/ Kill

SpecRestart == Init /\ [][NextRestart]_vars

\* C11: restart resumes from the persisted watermark: after a kill mid-cycle
\* and a new start (whose height query succeeded), last_checked_height
\* equals the watermark the monitor held before the kill.
RestartResumesFromWatermark ==
    (lastPoll.kind = "restarted" /\ lastPoll.before > 0 /\ lastPoll.start > 0)
        => last_checked_height = lastPoll.before

---------------------------------------------------------------------------
(* SpecFair: the deposit pipeline with the scheduling _monitor_loop gives: *)
(* start() runs, the loop polls again after every sleep, and the node and  *)
(* the wallet RPC answer again and again.                                  *)

\* a poll whose height query is answered
HeightAnswered == CheckDepositsHeight /\ mon_pc' = "fetched"

\* a poll whose transfers query is answered
TransfersAnswered == CheckDepositsTransfers /\ lastPoll'.transfers_ok

SpecFair ==
    /\ Spec
    /\ WF_vars(Start)
    /\ SF_vars(HeightAnswered)
    /\ SF_vars(TransfersAnswered)

\* C14: a deposit whose flow failed at a step is retried by later poll
\* cycles until it is marked processed: once a cycle has run the flow for a
\* confirmed deposit and failed, a processed_deposits row for its tx hash
\* eventually exists.
FailedFlowRetriedUntilMarked ==
    \A h \in TxHashes :
        ( /\ lastPoll.kind = "done"
          /\ lastPoll.raised
          /\ \E d \in lastPoll.gated : d.tx_hash = h )
        ~> IsDepositProcessed(processed_deposits, h)

---------------------------------------------------------------------------
(* SpecFrost: FrostCoordinator and FrostParticipant (src/frost), each      *)
(* method called by its caller                                             *)

FrostError == "FrostError"
NotImplementedError == "NotImplementedError"

\* `if not self._secret_share`, `if not self._public_key`
NotSet(v) == v \in {None, EmptyBytes}

Participants == 1..total_participants

\* the participant lists a caller can pass to coordinate_signing: any list
\* of participant ids, repetitions included
ParticipantLists ==
    UNION {[1..k -> Participants] : k \in 0..MaxParticipants}

\* a list of k distinct participants of the group
Honest(participants) ==
    \A i, j \in DOMAIN participants : i # j => participants[i] # participants[j]

\* the share values set_secret_share can be handed
ShareValues == {EmptyBytes, "share"}

\* run_dkg returning a group key it stored in the coordinator only
RunDkgCoordinatorOnly(st) ==
    [st EXCEPT !.coordinator_public_key = "group_key", !.result = "group_key"]

\* run_dkg on the keys carried in st: it raises before touching any key
RunDkg(st) == [st EXCEPT !.result = NotImplementedError]

\* participate_in_dkg
ParticipateInDkg(p) == NotImplementedError

\* coordinate_signing, taking one participant fewer than the threshold
CoordinateSigningOffByOne(t, participants) ==
    IF Len(participants) < t - 1 THEN FrostError ELSE NotImplementedError

\* coordinate_signing: how the call ends
CoordinateSigning(t, participants) ==
    IF Len(participants) < t THEN FrostError ELSE NotImplementedError

\* aggregate_signature_shares: shares is a dict keyed by participant id
AggregateSignatureShares(t, shares) ==
    IF Cardinality(DOMAIN shares) < t THEN FrostError ELSE NotImplementedError

\* create_signature_share without the check of lines 65-66
CreateSignatureShareUnchecked(share) == NotImplementedError

\* create_signature_share
CreateSignatureShare(share) ==
    IF NotSet(share) THEN FrostError ELSE NotImplementedError

FrostKeys ==
    [coordinator_public_key |-> coordinator_public_key,
     public_key |-> public_key, result |-> None]

RunDkgCall ==
    /\ LET st == RunDkg(FrostKeys) IN
       /\ coordinator_public_key' = st.coordinator_public_key
       /\ public_key' = st.public_key
       /\ frost_last' = [op |-> "run_dkg", count |-> total_participants,
                         honest |-> TRUE, result |-> st.result]
    /\ UNCHANGED <<threshold, total_participants, secret_share>>
    /\ UNCHANGED moreVars
    /\ UNCHANGED <<chainVars, monitorVars, subaddress_mappings, ledgerVars,
                   mints, sends, allocVars, calls, lastCall, netVars>>

ParticipateInDkgCall(p) ==
    /\ frost_last' = [op |-> "participate_in_dkg", count |-> 1,
                      honest |-> TRUE, result |-> ParticipateInDkg(p)]
    /\ UNCHANGED <<threshold, total_participants, coordinator_public_key,
                   secret_share, public_key>>
    /\ UNCHANGED moreVars
    /\ UNCHANGED <<chainVars, monitorVars, subaddress_mappings, ledgerVars,
                   mints, sends, allocVars, calls, lastCall, netVars>>

CoordinateSigningCall ==
    /\ \E participants \in ParticipantLists :
         frost_last' = [op |-> "coordinate_signing",
                        count |-> Len(participants),
                        honest |-> Honest(participants),
                        result |-> CoordinateSigning(threshold, participants)]
    /\ UNCHANGED <<threshold, total_participants, coordinator_public_key,
                   secret_share, public_key>>
    /\ UNCHANGED moreVars
    /\ UNCHANGED <<chainVars, monitorVars, subaddress_mappings, ledgerVars,
                   mints, sends, allocVars, calls, lastCall, netVars>>

AggregateSignatureSharesCall ==
    /\ \E ids \in SUBSET Participants :
         LET shares == [p \in ids |-> "sig_share"] IN
         frost_last' = [op |-> "aggregate_signature_shares",
                        count |-> Cardinality(ids), honest |-> TRUE,
                        result |-> AggregateSignatureShares(threshold, shares)]
    /\ UNCHANGED <<threshold, total_participants, coordinator_public_key,
                   secret_share, public_key>>
    /\ UNCHANGED moreVars
    /\ UNCHANGED <<chainVars, monitorVars, subaddress_mappings, ledgerVars,
                   mints, sends, allocVars, calls, lastCall, netVars>>

\* set_secret_share
SetSecretShare(p) ==
    /\ \E share \in ShareValues :
         secret_share' = [secret_share EXCEPT ![p] = share]
    /\ frost_last' = [op |-> "set_secret_share", count |-> 1, honest |-> TRUE,
                      result |-> None]
    /\ UNCHANGED <<threshold, total_participants, coordinator_public_key,
                   public_key>>
    /\ UNCHANGED moreVars
    /\ UNCHANGED <<chainVars, monitorVars, subaddress_mappings, ledgerVars,
                   mints, sends, allocVars, calls, lastCall, netVars>>

CreateSignatureShareCall(p) ==
    /\ frost_last' = [op |-> "create_signature_share", count |-> 1,
                      honest |-> TRUE,
                      result |-> CreateSignatureShare(secret_share[p])]
    /\ UNCHANGED <<threshold, total_participants, coordinator_public_key,
                   secret_share, public_key>>
    /\ UNCHANGED moreVars
    /\ UNCHANGED <<chainVars, monitorVars, subaddress_mappings, ledgerVars,
                   mints, sends, allocVars, calls, lastCall, netVars>>

\* FrostCoordinator.__init__ without the check of lines 26-29
FrostCoordinatorInitUnchecked(t, n) ==
    [threshold |-> t, total_participants |-> n, public_key |-> EmptyBytes,
     error |-> None]

\* FrostCoordinator.__init__: the fields of the new object, or the error
\* raised (no object results)
FrostCoordinatorInit(t, n) ==
    IF t > n
    THEN [threshold |-> 0, total_participants |-> 0, public_key |-> EmptyBytes,
          error |-> FrostError]
    ELSE [threshold |-> t, total_participants |-> n, public_key |-> EmptyBytes,
          error |-> None]

\* a caller constructs a coordinator and its participants anew; when the
\* constructor raises, the objects in use stay
ConstructCoordinator ==
    /\ \E t \in 1..MaxParticipants, n \in 1..MaxParticipants :
         LET obj == FrostCoordinatorInit(t, n) IN
         /\ frost_init' = [threshold |-> t, total_participants |-> n,
                           result |-> obj.error]
         /\ IF obj.error # None
            THEN UNCHANGED signerVars
            ELSE /\ threshold' = obj.threshold
                 /\ total_participants' = obj.total_participants
                 /\ coordinator_public_key' = obj.public_key
                 /\ secret_share' = [p \in 1..n |-> None]
                 /\ public_key' = [p \in 1..n |-> None]
                 /\ frost_last' = [op |-> "none", count |-> 0,
                                   honest |-> FALSE, result |-> None]
    /\ UNCHANGED <<blockVars, secretVars, withdrawVars, shutdownVars, lateVars>>
    /\ UNCHANGED <<chainVars, monitorVars, subaddress_mappings, ledgerVars,
                   mints, sends, allocVars, calls, lastCall, netVars>>

\* get_public_key of the coordinator and of a participant: the key, or
\* FrostError while it is not set
GetPublicKey(key) == IF NotSet(key) THEN FrostError ELSE key

CoordinatorGetPublicKeyCall ==
    /\ frost_last' = [op |-> "coordinator_get_public_key", count |-> 0,
                      honest |-> TRUE,
                      result |-> GetPublicKey(coordinator_public_key)]
    /\ UNCHANGED <<threshold, total_participants, coordinator_public_key,
                   secret_share, public_key>>
    /\ UNCHANGED moreVars
    /\ UNCHANGED <<chainVars, monitorVars, subaddress_mappings, ledgerVars,
                   mints, sends, allocVars, calls, lastCall, netVars>>

ParticipantGetPublicKeyCall(p) ==
    /\ frost_last' = [op |-> "participant_get_public_key", count |-> 1,
                      honest |-> TRUE, result |-> GetPublicKey(public_key[p])]
    /\ UNCHANGED <<threshold, total_participants, coordinator_public_key,
                   secret_share, public_key>>
    /\ UNCHANGED moreVars
    /\ UNCHANGED <<chainVars, monitorVars, subaddress_mappings, ledgerVars,
                   mints, sends, allocVars, calls, lastCall, netVars>>

\* a coordinator for any t <= n and its n participants
InitFrost ==
    /\ InitObjects
    /\ subaddress_mappings = {}
    /\ \E n \in 1..MaxParticipants : \E t \in 1..n : FrostObjects(t, n)

NextFrost ==
    \/ RunDkgCall
    \/ \E p \in Participants : ParticipateInDkgCall(p)
    \/ CoordinateSigningCall
    \/ AggregateSignatureSharesCall
    \/ \E p \in Participants : SetSecretShare(p)
    \/ \E p \in Participants : CreateSignatureShareCall(p)
    \/ CoordinatorGetPublicKeyCall
    \/ \E p \in Participants : ParticipantGetPublicKeyCall(p)

SpecFrost == InitFrost /\ [][NextFrost]_vars

\* coordinators constructed again and again, and used in between
NextFrostConstruct ==
    \/ ConstructCoordinator
    \/ \E p \in Participants : SetSecretShare(p)
    \/ \E p \in Participants : CreateSignatureShareCall(p)
    \/ CoordinatorGetPublicKeyCall

SpecFrostConstruct == InitFrost /\ [][NextFrostConstruct]_vars

\* how a FROST call can fail
FrostFailures == {FrostError, NotImplementedError}

\* C16: below threshold nothing is signed: coordinate_signing and
\* aggregate_signature_shares never return a signature when handed fewer
\* than threshold participants or shares; they fail with FrostError.
BelowThresholdNothingSigned ==
    ( /\ frost_last.op \in {"coordinate_signing", "aggregate_signature_shares"}
      /\ frost_last.count < threshold )
    => frost_last.result = FrostError

\* C16's case: coordinate_signing was called with at least one participant
\* but fewer than the threshold
SigningBelowThresholdTried ==
    /\ frost_last.op = "coordinate_signing"
    /\ frost_last.count >= 1
    /\ frost_last.count = threshold - 1

\* C17: for a signing set of k distinct participants with T <= k <= N,
\* coordinate_signing completes and returns a signature (the session reaches
\* VERIFIED).
SigningCompletesAtThreshold ==
    ( /\ frost_last.op = "coordinate_signing"
      /\ frost_last.honest
      /\ threshold <= frost_last.count
      /\ frost_last.count <= total_participants )
    => frost_last.result \notin FrostFailures

DistinctSigningSetRequired ==
    ( /\ frost_last.op = "coordinate_signing"
      /\ ~frost_last.honest
      /\ frost_last.count = threshold )
    => frost_last.result = FrostError

\* C29: no FrostCoordinator exists with threshold above total_participants:
\* a construction with T > N raises FrostError (and leaves no object), and
\* after one with T <= N the stored threshold and total are the arguments.
ThresholdNeverAboveTotal ==
    /\ threshold <= total_participants
    /\ frost_init.threshold > frost_init.total_participants
         => frost_init.result = FrostError
    /\ frost_init.threshold <= frost_init.total_participants
         => /\ frost_init.result = None
            /\ threshold = frost_init.threshold
            /\ total_participants = frost_init.total_participants

\* C29's case: a construction with T > N was tried and raised while an
\* earlier coordinator was in use
ConstructionAboveTotalTried ==
    /\ frost_init.threshold > frost_init.total_participants
    /\ frost_init.result = FrostError
    /\ frost_last.op # "none"

\* C30: before DKG has produced its outputs nothing is signed or published:
\* create_signature_share ends in FrostError while the participant has no
\* secret share, and get_public_key of the coordinator and of a participant
\* ends in FrostError while the key is unset.
NothingSignedOrPublishedBeforeDkg ==
    [][ /\ \A p \in Participants :
             (CreateSignatureShareCall(p) /\ NotSet(secret_share[p]))
                 => frost_last'.result = FrostError
        /\ (CoordinatorGetPublicKeyCall /\ NotSet(coordinator_public_key))
                 => frost_last'.result = FrostError
        /\ \A p \in Participants :
             (ParticipantGetPublicKeyCall(p) /\ NotSet(public_key[p]))
                 => frost_last'.result = FrostError ]_vars

\* C30's case: create_signature_share was refused for want of a share while
\* another participant had been handed one, no DKG having run
SignatureShareRefusedBeforeDkg ==
    /\ frost_last.op = "create_signature_share"
    /\ frost_last.result = FrostError
    /\ \E p, q \in Participants :
         NotSet(secret_share[p]) /\ ~NotSet(secret_share[q])
    /\ NotSet(coordinator_public_key)

---------------------------------------------------------------------------
(* SpecP2P: P2PNetwork (src/network/p2p.py), every node started, a message *)
(* handler registered, and one sender outside the configured peers         *)

\* a protocol message; author is who wrote the line (no field of the line:
\* broadcast attaches no signature)
Message(session, participant, round, author) ==
    [session |-> session, participant |-> participant, round |-> round,
     author |-> author]

\* the dedup key of the transport contract
MessageKey(m) == <<m.session, m.participant, m.round>>

\* how often writer c is in a node's _connections list
Occurrences(list, c) == Cardinality({i \in DOMAIN list : list[i] = c})

\* the same line k times
Copies(m, k) == [i \in 1..k |-> m]

\* the end of connection c that node n writes to
OtherSide(n, c) == IF links[c].dialer = n THEN "listener" ELSE "dialer"

\* the end of connection c that node n reads from
SideOf(n, c) == IF links[c].dialer = n THEN "dialer" ELSE "listener"

\* the next connection to open
FreeConn == CHOOSE c \in ConnIds :
                links[c] = NoLink /\ \A d \in ConnIds : links[d] = NoLink => c <= d

\* _connect_to_peers, one peer address: open_connection succeeds, the writer
\* is appended to _connections (line 177) and a _handle_connection task is
\* created for it (line 180); the peer's server creates its own
\* _handle_connection task for the accepted connection
ConnectToPeer(n, m) ==
    /\ n # m
    /\ <<n, m>> \notin dialed
    /\ \E c \in ConnIds : links[c] = NoLink
    /\ LET c == FreeConn IN
       /\ links' = [links EXCEPT ![c] = [dialer |-> n, listener |-> m]]
       /\ connections' = [connections EXCEPT ![n] = Append(@, c)]
       /\ pending' = pending \cup {<<n, c>>, <<m, c>>}
    /\ dialed' = dialed \cup {<<n, m>>}
    /\ UNCHANGED <<readers, wire, handled, broadcasts, intruder_sent>>
    /\ UNCHANGED moreVars
    /\ UNCHANGED <<chainVars, monitorVars, subaddress_mappings, ledgerVars,
                   mints, sends, allocVars, calls, lastCall, signerVars>>

\* _connect_to_peers, one peer address: open_connection raises (line 186)
ConnectToPeerFails(n, m) ==
    /\ n # m
    /\ <<n, m>> \notin dialed
    /\ dialed' = dialed \cup {<<n, m>>}
    /\ UNCHANGED <<connections, links, pending, readers, wire, handled,
                   broadcasts, intruder_sent>>
    /\ UNCHANGED moreVars
    /\ UNCHANGED <<chainVars, monitorVars, subaddress_mappings, ledgerVars,
                   mints, sends, allocVars, calls, lastCall, signerVars>>

\* _handle_connection, lines 133-139: the task starts, appends its writer to
\* _connections and enters the read loop
HandleConnectionStart(n, c) ==
    /\ <<n, c>> \in pending
    /\ pending' = pending \ {<<n, c>>}
    /\ connections' = [connections EXCEPT ![n] = Append(@, c)]
    /\ readers' = readers \cup {<<n, c>>}
    /\ UNCHANGED <<links, wire, handled, broadcasts, dialed, intruder_sent>>
    /\ UNCHANGED moreVars
    /\ UNCHANGED <<chainVars, monitorVars, subaddress_mappings, ledgerVars,
                   mints, sends, allocVars, calls, lastCall, signerVars>>

\* broadcast: one line is written to every writer in _connections
Broadcast(n) ==
    /\ broadcasts[n] < MaxBroadcasts
    /\ LET m == Message("s1", n, broadcasts[n] + 1, n) IN
       wire' = [c \in ConnIds |->
                  IF links[c] # NoLink /\ n \in {links[c].dialer, links[c].listener}
                  THEN [wire[c] EXCEPT ![OtherSide(n, c)] =
                            @ \o Copies(m, Occurrences(connections[n], c))]
                  ELSE wire[c]]
    /\ broadcasts' = [broadcasts EXCEPT ![n] = @ + 1]
    /\ UNCHANGED <<connections, links, pending, readers, handled, dialed,
                   intruder_sent>>
    /\ UNCHANGED moreVars
    /\ UNCHANGED <<chainVars, monitorVars, subaddress_mappings, ledgerVars,
                   mints, sends, allocVars, calls, lastCall, signerVars>>

\* _handle_connection, lines 140-149: a line is read, evaluated and given to
\* the message handler
HandleConnectionRead(n, c) ==
    /\ <<n, c>> \in readers
    /\ wire[c][SideOf(n, c)] # <<>>
    /\ handled' = [handled EXCEPT ![n] = Append(@, Head(wire[c][SideOf(n, c)]))]
    /\ wire' = [wire EXCEPT ![c][SideOf(n, c)] = Tail(@)]
    /\ UNCHANGED <<connections, links, pending, readers, broadcasts, dialed,
                   intruder_sent>>
    /\ UNCHANGED moreVars
    /\ UNCHANGED <<chainVars, monitorVars, subaddress_mappings, ledgerVars,
                   mints, sends, allocVars, calls, lastCall, signerVars>>

\* a sender that is no configured peer connects to node m's listen address:
\* the server accepts and creates a _handle_connection task
IntruderConnect(m) ==
    /\ \A c \in ConnIds : links[c] # NoLink => links[c].dialer # Intruder
    /\ \E c \in ConnIds : links[c] = NoLink
    /\ LET c == FreeConn IN
       /\ links' = [links EXCEPT ![c] = [dialer |-> Intruder, listener |-> m]]
       /\ pending' = pending \cup {<<m, c>>}
    /\ UNCHANGED <<connections, readers, wire, handled, broadcasts, dialed,
                   intruder_sent>>
    /\ UNCHANGED moreVars
    /\ UNCHANGED <<chainVars, monitorVars, subaddress_mappings, ledgerVars,
                   mints, sends, allocVars, calls, lastCall, signerVars>>

\* the unconfigured sender writes a line naming a participant of its choice
IntruderSend(c) ==
    /\ links[c] # NoLink
    /\ links[c].dialer = Intruder
    /\ intruder_sent < MaxIntruderLines
    /\ \E p \in Nodes :
         wire' = [wire EXCEPT ![c].listener =
                      Append(@, Message("s1", p, 1, Intruder))]
    /\ intruder_sent' = intruder_sent + 1
    /\ UNCHANGED <<connections, links, pending, readers, handled, broadcasts,
                   dialed>>
    /\ UNCHANGED moreVars
    /\ UNCHANGED <<chainVars, monitorVars, subaddress_mappings, ledgerVars,
                   mints, sends, allocVars, calls, lastCall, signerVars>>

NextP2P ==
    \/ \E n, m \in Nodes : ConnectToPeer(n, m)
    \/ \E n, m \in Nodes : ConnectToPeerFails(n, m)
    \/ \E n \in Nodes, c \in ConnIds : HandleConnectionStart(n, c)
    \/ \E n \in Nodes : Broadcast(n)
    \/ \E n \in Nodes, c \in ConnIds : HandleConnectionRead(n, c)
    \/ \E m \in Nodes : IntruderConnect(m)
    \/ \E c \in ConnIds : IntruderSend(c)

SpecP2P == InitBridge /\ [][NextP2P]_vars

\* C19: transport deduplication: the message handler of a node is invoked
\* at most once per (session, participant, round), however often the
\* message is delivered; one broadcast() call causes at most one handler
\* invocation at each peer.
DispatchedOncePerKey ==
    \A n \in Nodes :
        \A i, j \in DOMAIN handled[n] :
            i # j => MessageKey(handled[n][i]) # MessageKey(handled[n][j])

\* C20: the message handler is only invoked with messages of a configured
\* peer, verified as such: a line written by an unconfigured sender is never
\* dispatched.
DispatchedOnlyFromPeers ==
    \A n \in Nodes :
        \A i \in DOMAIN handled[n] : handled[n][i].author \in Nodes

---------------------------------------------------------------------------
(* SpecBlocks: the block-based MoneroDepositMonitor                        *)
(* (src/monero/deposit_monitor.py) polling a MoneroNode                    *)

\* what MoneroNode.get_block_height can return: result.get("height", 0)
NodeHeights == 0..MaxHeight

\* range(last_height, current_height + 1): the watermark's block included
BlockRangeFromWatermark(last, cur) ==
    [i \in 1..(cur - last + 1) |-> last + i - 1]

\* range(last_height + 1, current_height + 1), in the order the for loop
\* visits it
BlockRange(last, cur) == [i \in 1..(cur - last) |-> last + i]

\* _process_block: node.get_block returns or raises; the except clause of
\* lines 103-104 catches every exception, so the call returns either way
ProcessBlock(height, rpc_ok) ==
    [height |-> height, ok |-> rpc_ok, raised |-> FALSE]

\* start(): the loop task is created
BlockStart ==
    /\ ~block_running
    /\ block_pc = "new"
    /\ block_running' = TRUE
    /\ block_pc' = "init"
    /\ UNCHANGED <<last_height, block_current_height, block_todo,
                   block_initial, block_poll, block_log>>
    /\ UNCHANGED <<secretVars, withdrawVars, shutdownVars, frost_init, lateVars>>
    /\ UNCHANGED <<chainVars, monitorVars, subaddress_mappings, ledgerVars,
                   mints, sends, allocVars, calls, lastCall, signerVars,
                   netVars>>

\* _monitor_loop, line 62: the first height query, outside the try block:
\* an exception ends the task
BlockInitialHeight ==
    /\ block_pc = "init"
    /\ \E rpc_ok \in BOOLEAN, h \in NodeHeights :
         IF rpc_ok
         THEN /\ last_height' = h
              /\ block_initial' = h
              /\ block_poll' = [last |-> h, max |-> h, rewound |-> FALSE]
              /\ block_pc' = "poll"
         ELSE /\ block_pc' = "dead"
              /\ UNCHANGED <<last_height, block_initial, block_poll>>
    /\ UNCHANGED <<block_running, block_current_height, block_todo, block_log>>
    /\ UNCHANGED <<secretVars, withdrawVars, shutdownVars, frost_init, lateVars>>
    /\ UNCHANGED <<chainVars, monitorVars, subaddress_mappings, ledgerVars,
                   mints, sends, allocVars, calls, lastCall, signerVars,
                   netVars>>

\* _monitor_loop, lines 64-74: one height query of the loop; an exception is
\* caught at line 84 and the loop polls again
BlockPoll ==
    /\ block_pc = "poll"
    /\ block_running
    /\ \E rpc_ok \in BOOLEAN, h \in NodeHeights :
         IF ~rpc_ok
         THEN UNCHANGED <<block_poll, block_current_height, block_todo, block_pc>>
         ELSE /\ block_poll' = [last |-> h,
                                max |-> Max({h, block_poll.max}),
                                rewound |-> block_poll.rewound
                                              \/ h < block_poll.max]
              /\ block_current_height' = h
              /\ IF h > last_height
                 THEN /\ block_todo' = BlockRange(last_height, h)
                      /\ block_pc' = "range"
                 ELSE UNCHANGED <<block_todo, block_pc>>
    /\ UNCHANGED <<block_running, last_height, block_initial, block_log>>
    /\ UNCHANGED <<secretVars, withdrawVars, shutdownVars, frost_init, lateVars>>
    /\ UNCHANGED <<chainVars, monitorVars, subaddress_mappings, ledgerVars,
                   mints, sends, allocVars, calls, lastCall, signerVars,
                   netVars>>

\* _monitor_loop, lines 74-77: one pass of the for loop, and after the last
\* one the watermark update
BlockProcess ==
    /\ block_pc = "range"
    /\ block_todo # <<>>
    /\ \E rpc_ok \in BOOLEAN :
         LET r == ProcessBlock(Head(block_todo), rpc_ok) IN
         /\ block_log' = Append(block_log, [height |-> r.height, ok |-> r.ok])
         /\ block_todo' = Tail(block_todo)
         /\ IF r.raised
            THEN /\ block_pc' = "poll"
                 /\ UNCHANGED last_height
            ELSE IF Tail(block_todo) = <<>>
            THEN /\ last_height' = block_current_height
                 /\ block_pc' = "poll"
            ELSE UNCHANGED <<last_height, block_pc>>
    /\ UNCHANGED <<block_running, block_current_height, block_initial, block_poll>>
    /\ UNCHANGED <<secretVars, withdrawVars, shutdownVars, frost_init, lateVars>>
    /\ UNCHANGED <<chainVars, monitorVars, subaddress_mappings, ledgerVars,
                   mints, sends, allocVars, calls, lastCall, signerVars,
                   netVars>>

\* stop(): the flag is cleared and the task cancelled at the await it is
\* suspended in
BlockStop ==
    /\ block_running
    /\ block_running' = FALSE
    /\ block_pc' = IF block_pc = "dead" THEN "dead" ELSE "cancelled"
    /\ UNCHANGED <<last_height, block_current_height, block_todo,
                   block_initial, block_poll, block_log>>
    /\ UNCHANGED <<secretVars, withdrawVars, shutdownVars, frost_init, lateVars>>
    /\ UNCHANGED <<chainVars, monitorVars, subaddress_mappings, ledgerVars,
                   mints, sends, allocVars, calls, lastCall, signerVars,
                   netVars>>

NextBlocks ==
    \/ BlockStart
    \/ BlockInitialHeight
    \/ BlockPoll
    \/ BlockProcess
    \/ BlockStop

SpecBlocks == InitBridge /\ [][NextBlocks]_vars

\* C24: the watermark last_height has advanced only over blocks that were
\* processed successfully: every height between the initial watermark and
\* last_height has a _process_block call that did not fail (a failed block
\* is processed again before the watermark passes it).
WatermarkOnlyOverProcessedBlocks ==
    \A h \in (block_initial + 1)..last_height :
        \E i \in DOMAIN block_log :
            block_log[i].height = h /\ block_log[i].ok

\* C25: while the monitor runs, the heights handed to _process_block are
\* the heights above the initial watermark, each once, in strictly
\* increasing order without a gap, and between two cycles they reach the
\* greatest height any poll has returned.
EveryHeightOnceInOrder ==
    /\ \A i, j \in DOMAIN block_log :
         i < j => block_log[i].height < block_log[j].height
    /\ \A i \in DOMAIN block_log : block_log[i].height = block_initial + i
    /\ block_pc = "poll" =>
         /\ last_height = block_poll.max
         /\ Len(block_log) = block_poll.max - block_initial

\* C25's case: a poll returned less than an earlier one, a later poll
\* returned more, and that cycle's range has been processed
RangeProcessedAfterLowerPoll ==
    /\ block_pc = "poll"
    /\ block_poll.rewound
    /\ block_poll.last = block_poll.max
    /\ block_log # <<>>
    /\ block_log[Len(block_log)].height = block_poll.last
    /\ Len(block_log) >= 3

---------------------------------------------------------------------------
(* SpecWithdraw: SimpleBridge.start and the withdrawal monitor             *)
(* (SimpleBridge.monitor_withdrawals) against the Secret Network chain     *)

\* what get_latest_block_height can return: the height of the node that
\* answered the LCD request, which may lag behind the chain; 0 on any error
LatestBlockHeights == 0..secret_height

\* a burn of sXMR in the block at height
Burn(tx_hash, height) ==
    [tx_hash |-> tx_hash, amount |-> 1, monero_address |-> "xmr_addr",
     secret_address |-> "U1", block_height |-> height]

\* SecretNetworkClient.monitor_burn_events: `return []`, whatever the chain
\* holds
MonitorBurnEvents(chain_burns, start_height) == <<>>

\* the `for burn_event in burn_events` loop of monitor_withdrawals
RECURSIVE HandleAllWithdrawals(_, _, _, _)
HandleAllWithdrawals(st, burn_events, send_result, mark_ok) ==
    IF burn_events = <<>> THEN st
    ELSE HandleAllWithdrawals(
             HandleWithdrawal(st, Head(burn_events), send_result, mark_ok),
             Tail(burn_events), send_result, mark_ok)

\* SimpleBridge.start, lines 138-160: the withdrawal watermark is set to the
\* latest height, the deposit monitor is started (its watermark set, its
\* loop task created) and running is set
BridgeStart ==
    /\ ~bridge_running
    /\ wd_pc = "new"
    /\ mon_pc = "new"
    /\ db_open' = TRUE
    /\ sessions_open' = TRUE
    /\ \E h \in LatestBlockHeights :
         /\ last_withdrawal_check_height' = h
         /\ wd_initial' = h
    /\ \E rpc_ok \in BOOLEAN :
         /\ last_checked_height' = GetBlockHeight(rpc_ok)
         /\ lastPoll' = [NoPoll EXCEPT !.kind = IF lastPoll.kind = "killed"
                                                THEN "restarted" ELSE "started",
                                       !.start = GetBlockHeight(rpc_ok),
                                       !.before = lastPoll.before]
    /\ running' = TRUE
    /\ mon_pc' = "loop"
    /\ bridge_running' = TRUE
    /\ wd_pc' = "events"
    /\ UNCHANGED <<blockVars, secretVars, wd_handed, stopped, flow, frost_init, lateVars>>
    /\ UNCHANGED <<chainVars, processed_txs, current_height, delivered,
                   subaddress_mappings, ledgerVars, mints, sends, allocVars,
                   calls, lastCall, signerVars, netVars>>

\* monitor_withdrawals, lines 249-258: the burn events since the watermark
\* are fetched and each is given to _handle_withdrawal
MonitorWithdrawalsEvents ==
    /\ wd_pc = "events"
    /\ bridge_running
    /\ \E send_result \in SendResults, mark_ok \in BOOLEAN :
         LET burn_events == MonitorBurnEvents(burns, last_withdrawal_check_height)
             st == HandleAllWithdrawals(BridgeState, burn_events, send_result,
                                        mark_ok)
         IN  /\ processed_withdrawals' = st.processed_withdrawals
             /\ sends' = st.sends
             /\ wd_handed' = wd_handed \cup
                    {burn_events[i].tx_hash : i \in DOMAIN burn_events}
    /\ wd_pc' = "height"
    /\ UNCHANGED <<blockVars, secretVars, last_withdrawal_check_height,
                   wd_initial, shutdownVars, frost_init, lateVars>>
    /\ UNCHANGED <<chainVars, monitorVars, subaddress_mappings,
                   processed_deposits, mints, allocVars, calls, lastCall,
                   signerVars, netVars>>

\* monitor_withdrawals, lines 261-266: the latest height is fetched and,
\* unless it is 0, becomes the watermark
MonitorWithdrawalsHeight ==
    /\ wd_pc = "height"
    /\ \E cur \in LatestBlockHeights :
         /\ last_withdrawal_check_height' =
                IF cur > 0 THEN cur ELSE last_withdrawal_check_height
         /\ wd_poll' = cur
    /\ wd_pc' = "events"
    /\ UNCHANGED <<blockVars, secretVars, wd_initial, wd_handed, shutdownVars,
                   frost_init, transportVars, loopVars>>
    /\ UNCHANGED <<chainVars, monitorVars, subaddress_mappings, ledgerVars,
                   mints, sends, allocVars, calls, lastCall, signerVars,
                   netVars>>

\* Secret Network produces a block, which may hold one burn
SecretBlock ==
    /\ secret_height < MaxHeight
    /\ secret_height' = secret_height + 1
    /\ \/ UNCHANGED burns
       \/ \E h \in BurnHashes :
            /\ \A b \in burns : b.tx_hash # h
            /\ burns' = burns \cup {Burn(h, secret_height + 1)}
    /\ UNCHANGED <<blockVars, withdrawVars, shutdownVars, frost_init, lateVars>>
    /\ UNCHANGED <<chainVars, monitorVars, subaddress_mappings, ledgerVars,
                   mints, sends, allocVars, calls, lastCall, signerVars,
                   netVars>>

NextWithdraw ==
    \/ BridgeStart
    \/ MonitorWithdrawalsEvents
    \/ MonitorWithdrawalsHeight
    \/ SecretBlock

SpecWithdraw == InitBridge /\ [][NextWithdraw]_vars

\* C26: the observer watermarks never decrease across poll cycles, whatever
\* non-zero heights the chain queries return.
WatermarkNeverDecreases ==
    [][ /\ last_withdrawal_check_height' >= last_withdrawal_check_height
        /\ last_checked_height' >= last_checked_height ]_vars

\* C27: no burn event is skipped by the withdrawal monitor: once a poll
\* cycle has moved the watermark past the block of a burn event above the
\* initial watermark, the event has been passed to _handle_withdrawal.
NoBurnEventSkipped ==
    \A b \in burns :
        ( /\ wd_pc = "events"
          /\ b.block_height > wd_initial
          /\ last_withdrawal_check_height > b.block_height )
        => b.tx_hash \in wd_handed

---------------------------------------------------------------------------
(* SpecShutdown: SimpleBridge.stop() against _on_deposit and               *)
(* _handle_withdrawal calls in flight. A handler is suspended at each of   *)
(* its awaits; the chains and the database fail only by being closed.      *)

\* the ledger holds a row for the event of flow f
HasRow(f) ==
    IF f = "deposit"
    THEN IsDepositProcessed(processed_deposits, flow[f].key)
    ELSE IsWithdrawalProcessed(processed_withdrawals, flow[f].key)

\* the flow's handler returned or raised
Ended(fl) == [fl EXCEPT !.pc = "ended"]

\* a monitor calls _on_deposit / _handle_withdrawal with an event
FlowEnter(f) ==
    /\ bridge_running
    /\ flow[f].pc \in {"idle", "ended"}
    /\ IF f = "deposit"
       THEN \E d \in DepositEvents :
              flow' = [flow EXCEPT ![f] =
                         [IdleFlow EXCEPT !.pc = "check", !.key = d.tx_hash,
                                          !.minor = d.subaddress_index[2]]]
       ELSE \E b \in BurnEvents :
              flow' = [flow EXCEPT ![f] =
                         [IdleFlow EXCEPT !.pc = "check", !.key = b.tx_hash]]
    /\ UNCHANGED <<bridge_running, sessions_open, db_open, stopped>>
    /\ UNCHANGED <<blockVars, secretVars, withdrawVars, frost_init, lateVars>>
    /\ UNCHANGED <<chainVars, monitorVars, subaddress_mappings, ledgerVars,
                   mints, sends, allocVars, calls, lastCall, signerVars,
                   netVars>>

\* bridge.py:198 / 278: is_*_processed; on a closed connection the query
\* raises out of the handler
FlowCheck(f) ==
    /\ flow[f].pc = "check"
    /\ flow' = [flow EXCEPT ![f] =
                  IF ~db_open \/ HasRow(f) THEN Ended(@)
                  ELSE [@ EXCEPT !.pc = IF f = "deposit" THEN "lookup"
                                                          ELSE "submit"]]
    /\ UNCHANGED <<bridge_running, sessions_open, db_open, stopped>>
    /\ UNCHANGED <<blockVars, secretVars, withdrawVars, frost_init, lateVars>>
    /\ UNCHANGED <<chainVars, monitorVars, subaddress_mappings, ledgerVars,
                   mints, sends, allocVars, calls, lastCall, signerVars,
                   netVars>>

\* bridge.py:203-214: get_user_for_subaddress, awaited
FlowLookup(f) ==
    /\ f = "deposit"
    /\ flow[f].pc = "lookup"
    /\ flow' = [flow EXCEPT ![f] =
                  IF \/ ~db_open
                     \/ GetUserForSubaddress(subaddress_mappings, 0,
                                             flow[f].minor) = None
                  THEN Ended(@)
                  ELSE [@ EXCEPT !.pc = "submit"]]
    /\ UNCHANGED <<bridge_running, sessions_open, db_open, stopped>>
    /\ UNCHANGED <<blockVars, secretVars, withdrawVars, frost_init, lateVars>>
    /\ UNCHANGED <<chainVars, monitorVars, subaddress_mappings, ledgerVars,
                   mints, sends, allocVars, calls, lastCall, signerVars,
                   netVars>>

\* mint / send_transaction posts the transaction (secret_client.py:345,
\* monero_wallet.py:326); a closed session raises before anything is sent
FlowSubmit(f) ==
    /\ flow[f].pc = "submit"
    /\ flow' = [flow EXCEPT ![f] =
                  IF ~sessions_open THEN Ended(@)
                  ELSE [@ EXCEPT !.pc = "inflight", !.submitted = TRUE,
                                 !.late = @ \/ stopped]]
    /\ UNCHANGED <<bridge_running, sessions_open, db_open, stopped>>
    /\ UNCHANGED <<blockVars, secretVars, withdrawVars, frost_init, lateVars>>
    /\ UNCHANGED <<chainVars, monitorVars, subaddress_mappings, ledgerVars,
                   mints, sends, allocVars, calls, lastCall, signerVars,
                   netVars>>

\* the response of the post arrives and the action returns the tx hash; when
\* the session was closed under the request, the await raises instead and
\* the handler's except clause ends the call
FlowReturn(f) ==
    /\ flow[f].pc = "inflight"
    /\ flow' = [flow EXCEPT ![f] =
                  IF ~sessions_open THEN Ended(@) ELSE [@ EXCEPT !.pc = "mark"]]
    /\ UNCHANGED <<bridge_running, sessions_open, db_open, stopped>>
    /\ UNCHANGED <<blockVars, secretVars, withdrawVars, frost_init, lateVars>>
    /\ UNCHANGED <<chainVars, monitorVars, subaddress_mappings, ledgerVars,
                   mints, sends, allocVars, calls, lastCall, signerVars,
                   netVars>>

\* bridge.py:228-234 / 296-301: mark_*_processed; on a closed connection the
\* statement raises and the handler's except clause ends the call
FlowMark(f) ==
    /\ flow[f].pc = "mark"
    /\ IF ~db_open
       THEN /\ flow' = [flow EXCEPT ![f] = Ended(@)]
            /\ UNCHANGED ledgerVars
       ELSE /\ flow' = [flow EXCEPT ![f] = [Ended(@) EXCEPT !.late = @ \/ stopped]]
            /\ IF f = "deposit"
               THEN /\ processed_deposits' =
                         MarkDepositProcessed(processed_deposits, flow[f].key, 1,
                             DeriveSubaddress(0, flow[f].minor),
                             GetUserForSubaddress(subaddress_mappings, 0,
                                                  flow[f].minor),
                             SecretTxHash(1)).table
                    /\ UNCHANGED processed_withdrawals
               ELSE /\ processed_withdrawals' =
                         MarkWithdrawalProcessed(processed_withdrawals,
                             flow[f].key, 1, "xmr_addr", MoneroTxHash(1)).table
                    /\ UNCHANGED processed_deposits
    /\ UNCHANGED <<bridge_running, sessions_open, db_open, stopped>>
    /\ UNCHANGED <<blockVars, secretVars, withdrawVars, frost_init, lateVars>>
    /\ UNCHANGED <<chainVars, monitorVars, subaddress_mappings, mints, sends,
                   allocVars, calls, lastCall, signerVars, netVars>>

\* SimpleBridge.stop, lines 162-177: both running flags are cleared
\* (MoneroDepositMonitor.stop does nothing else), the sessions and the
\* database connection are closed; no task is cancelled or awaited
BridgeStop ==
    /\ bridge_running
    /\ bridge_running' = FALSE
    /\ running' = FALSE
    /\ sessions_open' = FALSE
    /\ db_open' = FALSE
    /\ stopped' = TRUE
    /\ UNCHANGED flow
    /\ UNCHANGED <<blockVars, secretVars, withdrawVars, frost_init, lateVars>>
    /\ UNCHANGED <<chainVars, last_checked_height, processed_txs, mon_pc,
                   current_height, lastPoll, delivered, subaddress_mappings,
                   ledgerVars, mints, sends, allocVars, calls, lastCall,
                   signerVars, netVars>>

NextShutdown ==
    \/ BridgeStart
    \/ \E f \in Flows : FlowEnter(f)
    \/ \E f \in Flows : FlowCheck(f)
    \/ \E f \in Flows : FlowLookup(f)
    \/ \E f \in Flows : FlowSubmit(f)
    \/ \E f \in Flows : FlowReturn(f)
    \/ \E f \in Flows : FlowMark(f)
    \/ BridgeStop

SpecShutdown == Init /\ [][NextShutdown]_vars

\* C21: clean shutdown: after stop() has returned, no flow that was in
\* flight has gone on to a mint, a Monero send or a ledger write, and no
\* flow has ended with its counterpart action submitted and no ledger row.
CleanShutdown ==
    stopped =>
        \A f \in Flows :
            /\ ~flow[f].late
            /\ (flow[f].pc = "ended" /\ flow[f].submitted) => HasRow(f)


---------------------------------------------------------------------------
(* SpecTransport: one P2PNetwork object (src/network/p2p.py) through its   *)
(* life: start, the _connect_to_peers task, accepted connections, the     *)
(* handler tasks, broadcast and stop as the event loop runs them (one step *)
(* per suspension), and remote ends closing. The dispatch of the lines    *)
(* read is the subject of SpecP2P.                                         *)

\* the state no action of the transport's life cycle touches
restVars == <<chainVars, monitorVars, subaddress_mappings, ledgerVars, mints,
              sends, allocVars, calls, lastCall, signerVars, netVars,
              blockVars, secretVars, withdrawVars, shutdownVars, frost_init,
              wd_poll, loopVars>>

\* list.remove(w): the list without its first occurrence of w
RemoveFirst(list, w) ==
    IF \E i \in DOMAIN list : list[i] = w
    THEN LET k == CHOOSE i \in DOMAIN list :
                      list[i] = w /\ \A j \in 1..(i - 1) : list[j] # w
         IN  SubSeq(list, 1, k - 1) \o SubSeq(list, k + 1, Len(list))
    ELSE list

\* the next StreamWriter the run creates
FreeWriter == CHOOSE w \in WriterIds :
                  writers[w].peer = 0 /\ \A v \in WriterIds : writers[v].peer = 0 => w <= v

\* the connection of writer w is usable: neither end has closed it
Healthy(w) == writers[w].peer # 0 /\ ~writers[w].closing /\ ~writers[w].eof

\* some usable connection to remote p is in _connections
Connected(p) ==
    \E i \in DOMAIN p2p_connections :
        writers[p2p_connections[i]].peer = p /\ Healthy(p2p_connections[i])

\* start(), lines 45-72: the server listens, _running is set and the
\* _connect_to_peers task is created (the first call; a call while running
\* returns at line 47)
TransportStart ==
    /\ ~p2p_running
    /\ stop_pc.pc = "no"
    /\ connect_pos = 0
    /\ p2p_server' = TRUE
    /\ p2p_running' = TRUE
    /\ connect_pos' = 1
    /\ UNCHANGED <<p2p_connections, writers, reachable, failed_dials, bcast,
                   bcast_log, stop_pc>>
    /\ UNCHANGED restVars

\* a remote's listen address starts to accept connections
BecomesReachable(p) ==
    /\ p \notin reachable
    /\ reachable' = reachable \cup {p}
    /\ UNCHANGED <<p2p_running, p2p_server, p2p_connections, writers,
                   connect_pos, failed_dials, bcast, bcast_log, stop_pc>>
    /\ UNCHANGED restVars

\* _connect_to_peers, one turn of the for loop (lines 162-187): the next
\* peer address is dialled; on success the writer is appended (177) and a
\* handler task is created (180), on failure the exception is logged (186);
\* either way the loop goes on to the next address and ends after the last
ConnectToPeersStep ==
    /\ connect_pos \in Remotes
    /\ IF connect_pos \in reachable
       THEN /\ \E w \in WriterIds : writers[w].peer = 0
            /\ LET w == FreeWriter IN
               /\ writers' = [writers EXCEPT ![w] =
                                 [NoWriter EXCEPT !.peer = connect_pos,
                                                  !.outbound = TRUE,
                                                  !.handler = "pending"]]
               /\ p2p_connections' = Append(p2p_connections, w)
            /\ UNCHANGED failed_dials
       ELSE /\ failed_dials' = failed_dials \cup {connect_pos}
            /\ UNCHANGED <<writers, p2p_connections>>
    /\ connect_pos' = connect_pos + 1
    /\ UNCHANGED <<p2p_running, p2p_server, reachable, bcast, bcast_log, stop_pc>>
    /\ UNCHANGED restVars

\* remote p connects to the listen address: the server accepts and creates
\* a _handle_connection task for the new writer (the run keeps a writer for
\* every address _connect_to_peers has still to dial)
AcceptConnection(p) ==
    /\ p2p_server
    /\ \A w \in WriterIds : ~(writers[w].peer = p /\ ~writers[w].outbound)
    /\ Cardinality({w \in WriterIds : writers[w].peer = 0})
           > NumRemotes + 1 - connect_pos
    /\ writers' = [writers EXCEPT ![FreeWriter] =
                      [NoWriter EXCEPT !.peer = p, !.handler = "pending"]]
    /\ UNCHANGED <<p2p_running, p2p_server, p2p_connections, reachable,
                   connect_pos, failed_dials, bcast, bcast_log, stop_pc>>
    /\ UNCHANGED restVars

\* _handle_connection, lines 133-139: the task starts and appends its
\* writer (136); with _running set it waits in readline, otherwise the
\* while loop is skipped and the finally clause (153-157) runs at once
HandleConnectionEnter(w) ==
    /\ writers[w].handler = "pending"
    /\ IF p2p_running
       THEN /\ p2p_connections' = Append(p2p_connections, w)
            /\ writers' = [writers EXCEPT ![w].handler = "reading"]
       ELSE /\ p2p_connections' = RemoveFirst(Append(p2p_connections, w), w)
            /\ writers' = [writers EXCEPT ![w].handler = "ended",
                                          ![w].closing = TRUE]
    /\ UNCHANGED <<p2p_running, p2p_server, reachable, connect_pos,
                   failed_dials, bcast, bcast_log, stop_pc>>
    /\ UNCHANGED restVars

\* the remote end of a connection closes it
RemoteCloses(w) ==
    /\ Healthy(w)
    /\ writers' = [writers EXCEPT ![w].eof = TRUE]
    /\ UNCHANGED <<p2p_running, p2p_server, p2p_connections, reachable,
                   connect_pos, failed_dials, bcast, bcast_log, stop_pc>>
    /\ UNCHANGED restVars

\* _handle_connection, lines 140-142 and 153-157: readline returns b"" and
\* the finally clause removes the writer (one occurrence) and closes it
HandleConnectionFinally(w) ==
    /\ writers[w].handler = "reading"
    /\ writers[w].eof
    /\ p2p_connections' = RemoveFirst(p2p_connections, w)
    /\ writers' = [writers EXCEPT ![w].handler = "ended", ![w].closing = TRUE]
    /\ UNCHANGED <<p2p_running, p2p_server, reachable, connect_pos,
                   failed_dials, bcast, bcast_log, stop_pc>>
    /\ UNCHANGED restVars

\* the for loop of broadcast (lines 105-112) from position i of the list as
\* it is now, up to its next suspension: write and drain on an open
\* transport do not suspend; on a closing transport the line is dropped and
\* drain yields to the event loop before it raises ConnectionResetError
RECURSIVE WriteRun(_, _, _)
WriteRun(list, i, st) ==
    IF i > Len(list) THEN [st EXCEPT !.pc = "done", !.i = i]
    ELSE LET w == list[i] IN
         IF st.ws[w].closing
         THEN [st EXCEPT !.pc = "drain", !.i = i, !.failed = @ \cup {w}]
         ELSE WriteRun(list, i + 1,
                  [st EXCEPT !.ws[w].got = IF st.ws[w].eof THEN @ ELSE @ + 1,
                             !.written = @ \cup {w}])

\* what a run of the loop leaves: the call suspended in drain, or returned
BroadcastOutcome(r, n, start) ==
    /\ writers' = r.ws
    /\ IF r.pc = "done"
       THEN /\ bcast' = [IdleBroadcast EXCEPT !.n = n]
            /\ bcast_log' = [n |-> n, start |-> start,
                             final |-> p2p_connections,
                             written |-> r.written, failed |-> r.failed,
                             open |-> {w \in WriterIds : ~r.ws[w].closing},
                             raised |-> FALSE]
       ELSE /\ bcast' = [pc |-> "drain", i |-> r.i, n |-> n, start |-> start,
                         written |-> r.written, failed |-> r.failed]
            /\ UNCHANGED bcast_log

\* broadcast(message) is called
BroadcastCall ==
    /\ bcast.pc = "idle"
    /\ bcast.n < MaxBroadcasts
    /\ BroadcastOutcome(WriteRun(p2p_connections, 1,
                                 [ws |-> writers, written |-> {}, failed |-> {},
                                  pc |-> "run", i |-> 1]),
                        bcast.n + 1, p2p_connections)
    /\ UNCHANGED <<p2p_running, p2p_server, p2p_connections, reachable,
                   connect_pos, failed_dials, stop_pc>>
    /\ UNCHANGED restVars

\* broadcast resumes after drain's yield: the exception is caught and
\* logged (111-112) and the for loop takes the next position of the list
BroadcastResume ==
    /\ bcast.pc = "drain"
    /\ BroadcastOutcome(WriteRun(p2p_connections, bcast.i + 1,
                                 [ws |-> writers, written |-> bcast.written,
                                  failed |-> bcast.failed, pc |-> "run",
                                  i |-> bcast.i + 1]),
                        bcast.n, bcast.start)
    /\ UNCHANGED <<p2p_running, p2p_server, p2p_connections, reachable,
                   connect_pos, failed_dials, stop_pc>>
    /\ UNCHANGED restVars

\* position of the next writer of the list, from i on, whose wait_closed
\* suspends: a writer already closed is passed without suspension
RECURSIVE NextOpen(_, _, _)
NextOpen(list, i, ws) ==
    IF i > Len(list) THEN i
    ELSE IF ws[list[i]].closing THEN NextOpen(list, i + 1, ws)
    ELSE i

\* the for loop of stop (lines 83-85) from position i up to its next
\* suspension: the writer is closed and stop waits in wait_closed; the
\* connection loss wakes the writer's handler first, whose finally clause
\* removes the writer from the list stop is iterating. After the last
\* position the server is closed (88-90) and stop returns
StopRun(i) ==
    LET k == NextOpen(p2p_connections, i, writers) IN
    IF k > Len(p2p_connections)
    THEN /\ p2p_server' = FALSE
         /\ stop_pc' = [pc |-> "done", i |-> k]
         /\ UNCHANGED <<p2p_connections, writers>>
    ELSE LET w == p2p_connections[k] IN
         /\ stop_pc' = [pc |-> "wait", i |-> k]
         /\ IF writers[w].handler = "reading"
            THEN /\ writers' = [writers EXCEPT ![w].closing = TRUE,
                                               ![w].handler = "ended"]
                 /\ p2p_connections' = RemoveFirst(p2p_connections, w)
            ELSE /\ writers' = [writers EXCEPT ![w].closing = TRUE]
                 /\ UNCHANGED p2p_connections
         /\ UNCHANGED p2p_server

\* stop() is called (lines 76-85)
StopCall ==
    /\ p2p_running
    /\ stop_pc.pc = "no"
    /\ p2p_running' = FALSE
    /\ StopRun(1)
    /\ UNCHANGED <<reachable, connect_pos, failed_dials, bcast, bcast_log>>
    /\ UNCHANGED restVars

\* stop resumes after wait_closed
StopResume ==
    /\ stop_pc.pc = "wait"
    /\ StopRun(stop_pc.i + 1)
    /\ UNCHANGED <<p2p_running, reachable, connect_pos, failed_dials, bcast,
                   bcast_log>>
    /\ UNCHANGED restVars

NextTransport ==
    \/ TransportStart
    \/ \E p \in Remotes : BecomesReachable(p)
    \/ ConnectToPeersStep
    \/ \E p \in Remotes : AcceptConnection(p)
    \/ \E w \in WriterIds : HandleConnectionEnter(w)
    \/ \E w \in WriterIds : RemoteCloses(w)
    \/ \E w \in WriterIds : HandleConnectionFinally(w)
    \/ BroadcastCall
    \/ BroadcastResume
    \/ StopCall
    \/ StopResume

SpecTransport == InitBridge /\ [][NextTransport]_vars

\* the transport started and left running: no broadcast() and no stop()
NextDial ==
    \/ TransportStart
    \/ \E p \in Remotes : BecomesReachable(p)
    \/ ConnectToPeersStep
    \/ \E p \in Remotes : AcceptConnection(p)
    \/ \E w \in WriterIds : HandleConnectionEnter(w)
    \/ \E w \in WriterIds : RemoteCloses(w)
    \/ \E w \in WriterIds : HandleConnectionFinally(w)

\* the tasks of the transport are scheduled by the event loop whenever they
\* can run; calls from outside and the remotes' actions are not
SpecDialFair ==
    /\ InitBridge
    /\ [][NextDial]_vars
    /\ WF_vars(ConnectToPeersStep)
    /\ WF_vars(\E w \in WriterIds : HandleConnectionEnter(w))
    /\ WF_vars(\E w \in WriterIds : HandleConnectionFinally(w))

\* C31: a configured peer that is unreachable when the transport starts is
\* retried: once that peer is reachable, a connection to it is eventually
\* established (and later broadcasts reach it).
UnreachablePeerRetried ==
    \A p \in Remotes :
        (p \in failed_dials /\ p \in reachable /\ p2p_running) ~> Connected(p)

\* C32: broadcast() attempts delivery on every current connection: every
\* writer that is in the list from the call to the return and still open at
\* the return has been written to, whichever other writes failed, and the
\* call does not raise.
BroadcastWritesEveryConnection ==
    bcast_log.n > 0 =>
        /\ ~bcast_log.raised
        /\ \A w \in bcast_log.open :
               (Occurrences(bcast_log.start, w) > 0
                  /\ Occurrences(bcast_log.final, w) > 0)
               => w \in bcast_log.written

\* C36: each open connection whose handler runs appears exactly once in
\* _connections, inbound and outbound alike; once its handler has ended
\* its writer is not in the list, and once stop() has returned no writer
\* whose handler has started is.
EachConnectionListedOnce ==
    \A w \in WriterIds :
        /\ (writers[w].handler = "reading" /\ ~writers[w].closing)
               => Occurrences(p2p_connections, w) = 1
        /\ writers[w].handler = "ended" => Occurrences(p2p_connections, w) = 0
        /\ (stop_pc.pc = "done" /\ writers[w].handler \in {"reading", "ended"})
               => Occurrences(p2p_connections, w) = 0

---------------------------------------------------------------------------
(* Deposits of one poll cycle: unmapped subaddresses and shared tx hashes  *)

\* deposit d has min_confirmations at height cur
IsConfirmed(d, cur) == Confirmations(cur, d.block_height) >= MinConfirmations

\* the identity the mapping table holds for the subaddress of deposit d
MappedIdentity(d) ==
    GetUserForSubaddress(subaddress_mappings, d.subaddress_index[1],
                         d.subaddress_index[2])

\* C33: a confirmed deposit to a subaddress without identity mapping causes
\* no mint and no ProcessedRecord, and every other confirmed deposit to a
\* mapped subaddress that the same poll returned is handed to on_deposit
\* (or its tx hash is already among the processed ones).
UnmappedDepositOnlySkipped ==
    lastPoll.kind = "done" =>
        \A d \in lastPoll.returned :
            (IsConfirmed(d, lastPoll.cur) /\ MappedIdentity(d) = None) =>
                /\ \A i \in DOMAIN mints :
                       ~(mints[i].tx_hash = d.tx_hash
                           /\ mints[i].subaddress_index = d.subaddress_index)
                /\ \A r \in processed_deposits :
                       ~(r.tx_hash = d.tx_hash /\ r.subaddress = d.subaddress)
                /\ \A e \in lastPoll.returned \ {d} :
                       (IsConfirmed(e, lastPoll.cur) /\ MappedIdentity(e) # None)
                           => (e \in lastPoll.handed \/ e.tx_hash \in processed_txs)

---------------------------------------------------------------------------
(* SpecPolls: the two poll loops of a started bridge, _check_deposits and  *)
(* monitor_withdrawals, with height queries that can fail                  *)

\* the Monero chain grows by one block; block 2 holds a transaction that
\* pays subaddress (0, 1)
MineBlockOneDeposit ==
    /\ mon_pc # "new"
    /\ chain_height < MaxHeight
    /\ chain_height' = chain_height + 1
    /\ transfers' = IF chain_height = 1
                    THEN transfers \cup {Transfer("t1", 1, 1, 2)}
                    ELSE transfers
    /\ UNCHANGED moreVars
    /\ UNCHANGED <<monitorVars, subaddress_mappings, ledgerVars, mints, sends,
                   allocVars, calls, lastCall, signerVars, netVars>>

\* the Secret chain stays at its height: the height query returns it or 0
NextPolls ==
    \/ BridgeStart
    \/ CheckDepositsHeight
    \/ CheckDepositsTransfers
    \/ MineBlockOneDeposit
    \/ MonitorWithdrawalsEvents
    \/ MonitorWithdrawalsHeight

SpecPolls == Init /\ [][NextPolls]_vars

\* C34: a poll cycle whose height query yields 0 changes nothing: the
\* deposit monitor makes no transfers query in it, delivers nothing and
\* keeps last_checked_height; the withdrawal monitor keeps
\* last_withdrawal_check_height.
HeightFailureChangesNothing ==
    [][/\ CheckDepositsTransfers => current_height # 0
       /\ lastPoll'.kind = "done" => lastPoll'.cur # 0
       /\ (CheckDepositsHeight /\ mon_pc' = "loop")
              => UNCHANGED <<last_checked_height, processed_txs, delivered,
                             mints, processed_deposits>>
       /\ (MonitorWithdrawalsHeight /\ wd_poll' = 0)
              => UNCHANGED last_withdrawal_check_height]_vars

\* both loops have just been through a cycle whose height query failed,
\* each with a non-zero watermark, and the wallet holds a transfer above
\* the deposit watermark
HeightQueriesFailed ==
    /\ lastPoll.kind = "height_failed"
    /\ mon_pc = "loop"
    /\ last_checked_height > 0
    /\ \E t \in transfers : t.height > last_checked_height /\ t.minor # 0
    /\ wd_poll = 0
    /\ wd_pc = "events"
    /\ last_withdrawal_check_height > 0

---------------------------------------------------------------------------
(* SpecStartStop: MoneroDepositMonitor (src/monero_monitor.py) under any   *)
(* sequence of start() and stop() calls                                    *)

\* start(), lines 48-58: the flag is set, the watermark read and a
\* _monitor_loop task created; nothing looks at the flag or at a task
\* created before
MonitorStart ==
    /\ start_calls < MaxStarts
    /\ start_calls' = start_calls + 1
    /\ running' = TRUE
    /\ \E rpc_ok \in BOOLEAN : last_checked_height' = GetBlockHeight(rpc_ok)
    /\ loop_tasks' = loop_tasks + 1
    /\ UNCHANGED loop_polls
    /\ UNCHANGED <<blockVars, secretVars, withdrawVars, shutdownVars, frost_init,
                   transportVars, wd_poll>>
    /\ UNCHANGED <<chainVars, processed_txs, mon_pc, current_height, lastPoll,
                   delivered, subaddress_mappings, ledgerVars, mints, sends,
                   allocVars, calls, lastCall, signerVars, netVars>>

\* stop(), lines 60-63: the flag is cleared
MonitorStop ==
    /\ running
    /\ running' = FALSE
    /\ UNCHANGED <<blockVars, secretVars, withdrawVars, shutdownVars, frost_init,
                   lateVars>>
    /\ UNCHANGED <<chainVars, last_checked_height, processed_txs, mon_pc,
                   current_height, lastPoll, delivered, subaddress_mappings,
                   ledgerVars, mints, sends, allocVars, calls, lastCall,
                   signerVars, netVars>>

\* _monitor_loop, lines 65-74: a task reaches its `while self.running` test,
\* on entry or after its sleep: it runs a poll cycle and sleeps again, or
\* returns
MonitorLoopTurn ==
    /\ loop_tasks > 0
    /\ IF running
       THEN /\ loop_polls < MaxPolls
            /\ loop_polls' = loop_polls + 1
            /\ UNCHANGED loop_tasks
       ELSE /\ loop_tasks' = loop_tasks - 1
            /\ UNCHANGED loop_polls
    /\ UNCHANGED start_calls
    /\ UNCHANGED <<blockVars, secretVars, withdrawVars, shutdownVars, frost_init,
                   transportVars, wd_poll>>
    /\ UNCHANGED <<chainVars, monitorVars, subaddress_mappings, ledgerVars,
                   mints, sends, allocVars, calls, lastCall, signerVars,
                   netVars>>

NextStartStop ==
    \/ MonitorStart
    \/ MonitorStop
    \/ MonitorLoopTurn

SpecStartStop == Init /\ [][NextStartStop]_vars

\* the loop tasks that go on polling: with the flag cleared every task
\* returns at its next test
ActiveLoops == IF running THEN loop_tasks ELSE 0

\* C35: at most one monitoring loop is active per deposit monitor at any
\* time, for any sequence of start() and stop() calls.
AtMostOneActiveLoop == ActiveLoops <= 1

\* C37: whenever the block-based deposit monitor is marked running, its
\* loop task is alive and will poll again: no failed height query, the
\* initial one included, leaves _running set with no loop.
RunningMonitorHasLiveLoop ==
    block_running => block_pc \in {"init", "poll", "range"}

\* C38: when one source transaction pays two different mapped
\* subaddresses, each transfer is minted to its own identity; neither is
\* dropped because the other shares its tx hash: _on_deposit returns at its
\* processed check only when the ledger row is the row of that very
\* transfer.
TransferDroppedOnlyForItsOwnRow ==
    [][(/\ flow["deposit"].pc = "check"
        /\ flow'["deposit"].pc = "ended"
        /\ db_open
        /\ GetUserForSubaddress(subaddress_mappings, 0,
                                flow["deposit"].minor) # None)
          => \E r \in processed_deposits :
                 /\ r.tx_hash = flow["deposit"].key
                 /\ r.subaddress = DeriveSubaddress(0, flow["deposit"].minor)]_vars

---------------------------------------------------------------------------
(* SpecAlloc: generate_subaddress called by concurrent callers on an empty *)
(* mapping table                                                           *)

NextAlloc ==
    \/ \E c \in Callers : GenCall(c)
    \/ \E c \in Callers : GenCheck(c)
    \/ \E c \in Callers : GenNextIndex(c)
    \/ \E c \in Callers : GenSave(c)

SpecAlloc == InitBridge /\ [][NextAlloc]_vars

\* C39: every subaddress index allocated by generate_subaddress is at
\* least 1: index 0 of account 0, the primary address, is never stored in a
\* mapping, never about to be stored and never returned to a caller.
AllocatedIndexAtLeastOne ==
    /\ \A r \in subaddress_mappings : r.subaddress_index >= 1
    /\ \A c \in Callers : gen[c].pc = "save" => gen[c].index >= 1
    /\ \A i \in issued : i.index >= 1

\* two identities hold the indexes 1 and 2, allocated one after the other
TwoIndexesAllocated ==
    /\ \E r \in subaddress_mappings : r.subaddress_index = 1
    /\ \E r \in subaddress_mappings : r.subaddress_index = 2
    /\ Cardinality(issued) >= 2
=============================================================================
